---- MODULE Spec2Model ----
(***************************************************************************)
(* Model of the tile acquisition and panorama assembly pipeline of         *)
(* panorama_downloader_gui.py: the batch worker, the per-URL worker, the   *)
(* StreetView and template tile fetchers, the grid search, and the file    *)
(* system effects of normalizing, stitching and cleanup.                   *)
(***************************************************************************)
EXTENDS Integers, Sequences, FiniteSets, TLC

\* ------------------------------------------------------------------ bounds
\* Longest urls_to_process list explored.
MaxJobs == 2
\* Greatest zoom of a template URL whose grid is resolved on its own.
MaxGridZoom == 6
\* Most .jpg files in a directory that is normalized or stitched on its own.
MaxTiles == 4
\* Most pieces after the host of a URL that is classified on its own.
MaxPieces == 3

\* ------------------------------------------------------- program constants
AbortAttempts == 50
AbortSuccesses == 5
FallbackTally == 10
AutoZoom == 5
FallbackZoom == 4
CoarseStepX == 4
CoarseStepY == 2
FineBackX == 8
FineAheadX == 16
FineBackY == 4
FineAheadY == 8

\* total_attempted before its first assignment (a Python local not yet bound)
Unbound == -1

SvSuffix == "-nbt1-fover2"
TplSuffix == ""

Modes == {"full", "download", "normalize", "stitch"}
ZoomLevels == 0..5

RECURSIVE Pow2(_)
Pow2(n) == IF n = 0 THEN 1 ELSE 2 * Pow2(n - 1)

Max(a, b) == IF a > b THEN a ELSE b
Min(a, b) == IF a < b THEN a ELSE b

\* Greatest element of a set of naturals, or d when the set is empty.
GreatestOr(S, d) == IF S = {} THEN d ELSE CHOOSE m \in S : \A n \in S : n <= m

VARIABLES
    \* ---- the arguments start_download hands to the worker
    urls_to_process,    \* sequence of [url_type, placeholders, zoom, pano_id, fetchable]
    mode, zoom_mode, zoom_level, delete_tiles,
    \* ---- the tile server: tiles present at zoom 5 and at the other zooms
    srv5, srvLow,
    \* ---- the file system under output_dir
    tileDirs,           \* pano ids whose tile directory exists
    tileFiles,          \* tile files <<pano_id, x, y, zoom, suffix>>
    unreadable,         \* tile files PIL cannot open
    panoramas,          \* pano ids whose <pano_id>.jpg exists
    urlFiles,           \* pano ids whose <pano_id>.url exists
    \* ---- worker_function_batch
    pc, idx, batch_successful, batch_failed,
    \* ---- the fetchers' locals
    zoom, width, height, x, y, successful, failed, total_attempted,
    successful_tiles,
    \* ---- history
    gets,               \* GET requests issued in the current zoom attempt / template download
    visited,            \* grid coordinates the current attempt's loop body has run for
    probes,             \* HEAD probes issued for the current job
    written,            \* tile files download_image wrote in this run
    attemptLog,         \* the current job's attempts: [zoom, tiles, pre, tally, gets, visited]
    jobLog,             \* one record per job started: [job, outcome, normalized, stitched, cleaned]
    \* ---- the window and its queue
    progress_queue,     \* the messages put and not yet taken: <<msg_type, text, number>>
    is_running,
    handled,            \* the messages start_progress_monitor has taken and handled, in order
    clicked,            \* how the last call of start_download ended ("none" before the first)
    \* ---- one call of a function on its own
    input, output

vars == <<urls_to_process, mode, zoom_mode, zoom_level, delete_tiles, srv5, srvLow,
          tileDirs, tileFiles, unreadable, panoramas, urlFiles,
          pc, idx, batch_successful, batch_failed,
          zoom, width, height, x, y, successful, failed, total_attempted,
          successful_tiles, gets, visited, probes, written, attemptLog, jobLog,
          progress_queue, is_running, handled, clicked, input, output>>

argVars == <<urls_to_process, mode, zoom_mode, zoom_level, delete_tiles, srv5, srvLow>>
loopVars == <<zoom, width, height, x, y, successful, failed, total_attempted, gets, visited>>
diskVars == <<tileDirs, tileFiles, unreadable, panoramas, urlFiles>>
batchVars == <<idx, batch_successful, batch_failed>>
guiVars == <<is_running, handled, clicked>>
callVars == <<input, output>>

\* ------------------------------------------------------------- tile server
\* A server holds the tiles of a rectangle [0, rect[1]) x [0, rect[2]).
OnServer(rect, cx, cy) == cx < rect[1] /\ cy < rect[2]

\* The tiles the requests of the current job can reach: requests has no
\* connection adapter for a URL that is not http:// or https://, so every
\* request for such a template URL fails as if the server held nothing.
SrvRect(z) ==
    IF ~urls_to_process[idx].fetchable THEN <<0, 0>>
    ELSE IF z = AutoZoom THEN srv5 ELSE srvLow

FailKinds == <<"http_error", "not_image", "transport_error", "timeout">>

\* What requests.get meets for tile (cx, cy) at zoom z: an image with a success
\* status, or one of the failures, which vary over the grid.
Response(z, cx, cy) ==
    IF OnServer(SrvRect(z), cx, cy) THEN "image" ELSE FailKinds[((cx + cy) % 4) + 1]

\* requests.head(...).status_code == 200, any error being False.
test_tile_exists(rect, cx, cy) == OnServer(rect, cx, cy)

\* A download_image that takes any success status for a tile, whatever its content type.
download_image_any_type(resp) ==
    [ok |-> resp \in {"image", "not_image"}, wrote |-> resp \in {"image", "not_image"}]

\* download_image: True, with the body written to the file, only for a success
\* status with an image/ content type; the file is opened after both checks.
download_image(resp) == [ok |-> resp = "image", wrote |-> resp = "image"]

\* ------------------------------------------------------------- grid search
\* A ceiling of 2^zoom columns.
TheoreticalXSquare(z) == Pow2(z)

\* The search ceilings of lines 846-854 and 916-924.
TheoreticalX(z) == IF z = 5 THEN 64 ELSE IF z = 4 THEN 32 ELSE Pow2(z + 1)
TheoreticalY(z) == IF z = 5 THEN 32 ELSE IF z = 4 THEN 16 ELSE Pow2(z)

\* A coarse pass that probes every position.
CoarseRangeEvery(ceil, step) == 0..(ceil - 1)

CoarseRange(ceil, step) == {n \in 0..(ceil - 1) : n % step = 0}

\* A fine pass that only looks back from the coarse result.
FineRangeBehind(found, back, ahead, ceil) == Max(0, found - back)..found

\* A fine pass that looks as far ahead as it looks back.
FineRangeSymmetric(found, back, ahead, ceil) ==
    Max(0, found - back)..(Min(ceil, found + back) - 1)

\* range(max(0, found - back), min(ceil, found + ahead))
FineRange(found, back, ahead, ceil) == Max(0, found - back)..(Min(ceil, found + ahead) - 1)

\* One axis, given the positions at which a probe answers present: the coarse
\* pass keeps the last position found, the fine pass the maximum of that and the
\* positions found in its window.
AxisSearch(ceil, step, back, ahead, present) ==
    LET coarse == GreatestOr(CoarseRange(ceil, step) \cap present, 0)
        window == FineRange(coarse, back, ahead, ceil)
        fine == Max(coarse, GreatestOr(window \cap present, 0))
    IN  [found |-> fine, coarse |-> coarse,
         probed |-> CoarseRange(ceil, step) \cup window,
         hits |-> Cardinality(CoarseRange(ceil, step) \cap present),
         probes |-> Cardinality(CoarseRange(ceil, step)) + Cardinality(window)]

\* A threshold of a fifth of the theoretical count.
TooSmallFifth(detected, theoretical) == detected * 5 < theoretical

\* detected_tiles < theoretical_tiles * 0.1; theoretical_tiles is a power of two,
\* so the float product is never an integer and the test is detected * 10 < theoretical.
TooSmall(detected, theoretical) == detected * 10 < theoretical

\* presentX: the x at which the probe of (x, 0) answers present; presentY: the y
\* at which the probe of (0, y) does.
GridSearch(z, presentX, presentY) ==
    LET mx == TheoreticalX(z)
        my == TheoreticalY(z)
        ax == AxisSearch(mx, CoarseStepX, FineBackX, FineAheadX, presentX)
        ay == AxisSearch(my, CoarseStepY, FineBackY, FineAheadY, presentY)
        fallback == TooSmall((ax.found + 1) * (ay.found + 1), mx * my)
    IN  [width |-> IF fallback THEN mx ELSE ax.found + 1,
         height |-> IF fallback THEN my ELSE ay.found + 1,
         fallback |-> fallback, hitsX |-> ax.hits, hitsY |-> ay.hits,
         axisX |-> ax, axisY |-> ay,
         probes |-> ax.probes + ay.probes]

ProbedX(z, rect) == {n \in 0..(TheoreticalX(z) - 1) : test_tile_exists(rect, n, 0)}
ProbedY(z, rect) == {n \in 0..(TheoreticalY(z) - 1) : test_tile_exists(rect, 0, n)}

find_grid_boundaries(z, rect) == GridSearch(z, ProbedX(z, rect), ProbedY(z, rect))
auto_detect_grid(z, rect) == GridSearch(z, ProbedX(z, rect), ProbedY(z, rect))

\* The grid download_template_tiles scans for a job (lines 789-794).
TemplateGrid(job, rect) ==
    IF job.placeholders THEN find_grid_boundaries(job.zoom, rect)
    ELSE auto_detect_grid(job.zoom, rect)

\* ------------------------------------------------------------ file names
\* <pano_id>_x<X>-y<Y>-zoom<Z><suffix>.jpg in the directory <output_dir>/<pano_id>
TileFile(pano, cx, cy, z, sfx) == <<pano, cx, cy, z, sfx>>
Suffix(job) == IF job.url_type = "streetview" THEN SvSuffix ELSE TplSuffix
DirTiles(pano) == {f \in tileFiles : f[1] = pano}

\* The files of the w x h grid at zoom z that are on disk.
GridFilesPresent(pano, z, sfx, w, h) ==
    {f \in tileFiles : f[1] = pano /\ f[4] = z /\ f[5] = sfx /\ f[2] < w /\ f[3] < h}

\* ------------------------------------------------------------------- Init
SvJob == [url_type |-> "streetview", placeholders |-> FALSE, zoom |-> AutoZoom]
TplJobs == {[url_type |-> "template", placeholders |-> p, zoom |-> z] :
                p \in BOOLEAN, z \in {2, 3}}
TplJob == [url_type |-> "template", placeholders |-> TRUE, zoom |-> 2]

Rects == {<<0, 0>>, <<1, 3>>, <<1, 7>>, <<2, 5>>, <<4, 4>>}
PrePatterns == {"none", "emptydir", "one", "corrupt", "col0", "all"}

JobLists(K) == UNION {[1..n -> K] : n \in 1..MaxJobs}

\* The identifiers of the URLs of one list are distinct: each is the URL's place
\* in it; the URLs are http URLs.
WithIds(jobs) ==
    [i \in 1..Len(jobs) |-> [url_type |-> jobs[i].url_type, placeholders |-> jobs[i].placeholders,
                             zoom |-> jobs[i].zoom, pano_id |-> i, fetchable |-> TRUE]]

\* The zoom and grid of a job's first attempt.
FirstZoom(job, zm, zl) ==
    IF job.url_type = "streetview" THEN (IF zm = "auto" THEN AutoZoom ELSE zl) ELSE job.zoom
FirstGrid(job, zm, zl, rectLow, rect5) ==
    IF job.url_type = "streetview"
    THEN [width |-> Pow2(FirstZoom(job, zm, zl) + 1), height |-> Pow2(FirstZoom(job, zm, zl))]
    ELSE TemplateGrid(job, IF job.zoom = AutoZoom THEN rect5 ELSE rectLow)

\* Tile files left in a job's directory by an earlier run.
PreTiles(i, job, pat, zm, zl, rectLow, rect5) ==
    LET z == FirstZoom(job, zm, zl)
        g == FirstGrid(job, zm, zl, rectLow, rect5)
        sfx == Suffix(job)
    IN  CASE pat \in {"one", "corrupt"} -> {TileFile(i, 0, 0, z, sfx)}
          [] pat = "col0" -> {TileFile(i, 0, cy, z, sfx) : cy \in 0..(g.height - 1)}
          [] pat = "all" -> {TileFile(i, cx, cy, z, sfx) :
                                cx \in 0..(g.width - 1), cy \in 0..(g.height - 1)}
          [] OTHER -> {}

\* One URL, download only, over the servers, zoom settings and earlier states.
\* The zoom-4 server is varied where a zoom-4 attempt can follow.
FetchScenario(jobs, m, del, zm, zl, r5, rl, pat) ==
    /\ Len(jobs) = 1 /\ jobs[1] \in {SvJob} \cup TplJobs
    /\ m = "download" /\ ~del
    /\ pat \in {"none", "one", "col0", "all"}
    /\ r5 # <<4, 4>>
    /\ (jobs[1].url_type = "template" => zm = "auto" /\ r5 = <<0, 0>>)
    /\ (zm = "manual" /\ zl # AutoZoom => r5 = <<0, 0>>)
    /\ (zm = "manual" /\ zl = AutoZoom => r5 # <<1, 7>> /\ rl \in {<<0, 0>>, <<2, 5>>})
    /\ (r5 = <<1, 7>> => rl \in {<<0, 0>>, <<2, 5>>})
    /\ (r5 = <<2, 5>> => rl = <<0, 0>>)

\* A batch in every mode, over servers on which a zoom attempt ends early.
JobScenario(jobs, m, del, zm, zl, r5, rl, pat) ==
    /\ \A i \in 1..Len(jobs) : jobs[i] \in {SvJob, TplJob}
    /\ r5 = <<0, 0>> /\ rl \in {<<0, 0>>, <<1, 3>>}
    /\ (zm = "manual" => zl \in {0, 1})
    /\ pat \in {"none", "emptydir", "one", "corrupt"}

\* One StreetView URL through the full pipeline with auto zoom, over a zoom-5
\* server that holds fewer tiles than the fallback tally.
FallbackScenario(jobs, m, del, zm, zl, r5, rl, pat) ==
    /\ jobs = <<SvJob>> /\ m = "full" /\ zm = "auto"
    /\ r5 \in {<<1, 3>>, <<1, 7>>} /\ rl = <<1, 3>>
    /\ pat = "none"

Init ==
    \E jobs \in JobLists({SvJob} \cup TplJobs), m \in Modes, del \in BOOLEAN,
       zm \in {"auto", "manual"}, zl \in ZoomLevels, r5 \in Rects, rl \in Rects,
       pat \in PrePatterns :
        /\ zm = "auto" => zl = AutoZoom
        /\ \/ FetchScenario(jobs, m, del, zm, zl, r5, rl, pat)
           \/ JobScenario(jobs, m, del, zm, zl, r5, rl, pat)
           \/ FallbackScenario(jobs, m, del, zm, zl, r5, rl, pat)
        /\ urls_to_process = WithIds(jobs)
        /\ mode = m /\ zoom_mode = zm /\ zoom_level = zl /\ delete_tiles = del
        /\ srv5 = r5 /\ srvLow = rl
        /\ tileDirs = IF pat = "none" THEN {} ELSE 1..Len(jobs)
        /\ tileFiles = UNION {PreTiles(i, jobs[i], pat, zm, zl, rl, r5) : i \in 1..Len(jobs)}
        /\ unreadable = IF pat = "corrupt" THEN tileFiles ELSE {}
        /\ panoramas = {} /\ urlFiles = {}
        /\ pc = "batch" /\ idx = 0 /\ batch_successful = 0 /\ batch_failed = 0
        /\ zoom = 0 /\ width = 0 /\ height = 0 /\ x = 0 /\ y = 0
        /\ successful = 0 /\ failed = 0 /\ total_attempted = Unbound
        /\ successful_tiles = 0
        /\ gets = 0 /\ visited = 0 /\ probes = 0 /\ written = {}
        /\ attemptLog = <<>> /\ jobLog = <<>>
        /\ progress_queue = <<>> /\ is_running = TRUE /\ handled = <<>>
        /\ clicked = "none"
        /\ input = <<>> /\ output = <<>>

\* ------------------------------------------------------------ progress_queue
\* A message is <<msg_type, text, number>>: the number is the error flag of a log
\* line and the percentage of a progress message.
send_log(message) == <<"log", message, 0>>
send_error(message) == <<"log", message, 1>>
update_progress(status, progress) == <<"progress", status, progress>>
finished_message == <<"finished", "None", 0>>

\* The messages the worker puts during one step, in the order of its calls.
put(messages) == progress_queue' = progress_queue \o messages

Repeat(n, message) == [i \in 1..n |-> message]
FailedToProcess == send_error("Failed to process")

\* The log lines of find_grid_boundaries and auto_detect_grid.
GridLog(job, g) ==
    <<send_log(IF job.placeholders THEN "Finding grid boundaries..."
               ELSE "Auto-detecting grid size from URL..."),
      send_log("Searching grid up to"), send_log("Testing X boundary...")>>
    \o Repeat(g.hitsX, send_log("Found tile at x"))
    \o <<send_log("Testing Y boundary...")>>
    \o Repeat(g.hitsY, send_log("Found tile at y"))
    \o (IF g.fallback
        THEN <<send_log("Detection found only"),
               send_log("Using full theoretical bounds instead")>>
        ELSE <<>>)
    \o <<send_log("Final grid boundaries")>>

\* -------------------------------------------------------- worker_function_batch
Job == urls_to_process[idx]
\* args['pano_id'] of the job being processed (line 612).
pano_id == Job.pano_id
RunningJob == [job |-> idx + 1, outcome |-> "running",
               normalized |-> FALSE, stitched |-> FALSE, cleaned |-> FALSE]

\* An except clause that leaves the loop.
NextAfterErrorBreaks(i, n) == n

\* An exception leaves worker_function_single: the batch loop's except clause
\* counts the job as failed and goes on with the next one (lines 584-586).
NextAfterError(i, n) == i

JobRaise(err) ==
    /\ batch_failed' = batch_failed + 1
    /\ jobLog' = [jobLog EXCEPT ![Len(jobLog)].outcome = err]
    /\ idx' = NextAfterError(idx, Len(urls_to_process))
    /\ batch_successful' = batch_successful
    /\ pc' = "batch"

JobGoes(next) ==
    /\ pc' = next
    /\ UNCHANGED <<batchVars, jobLog>>

\* The loop head and the setup of worker_function_single: the .url file is written.
StartJob ==
    /\ pc = "batch" /\ idx < Len(urls_to_process)
    /\ idx' = idx + 1
    /\ urlFiles' = urlFiles \cup {urls_to_process[idx + 1].pano_id}
    /\ jobLog' = Append(jobLog, RunningJob)
    /\ attemptLog' = <<>>
    /\ probes' = 0
    /\ pc' = "single"
    /\ put(<<send_log("===="), send_log("Processing URL"), send_log("URL:"), send_log("===="),
             update_progress("Processing URL", (idx * 100) \div Len(urls_to_process)),
             send_log("Created URL file")>>)
    /\ UNCHANGED <<argVars, guiVars, callVars, tileDirs, tileFiles, unreadable, panoramas, batch_successful,
                   batch_failed, loopVars, successful_tiles, written>>

\* The locals of a zoom attempt or template download as it starts.
BeginScan(z, w, h, sfx) ==
    /\ zoom' = z /\ width' = w /\ height' = h
    /\ x' = 0 /\ y' = 0
    /\ successful' = 0 /\ failed' = 0 /\ total_attempted' = Unbound
    /\ gets' = 0 /\ visited' = 0
    /\ attemptLog' = Append(attemptLog,
            [zoom |-> z, tiles |-> w * h,
             pre |-> Cardinality(GridFilesPresent(pano_id, z, sfx, w, h)),
             tally |-> Unbound, gets |-> 0, visited |-> 0])

\* zoom = None if args['zoom_mode'] == 'auto' else args['zoom_level'];
\* download_streetview_tiles replaces None by 5.
RequestedZoom == IF zoom_mode = "auto" THEN AutoZoom ELSE zoom_level

DownloadStreetViewStart ==
    /\ pc = "single" /\ Job.url_type = "streetview" /\ mode \in {"full", "download"}
    /\ tileDirs' = tileDirs \cup {pano_id}
    /\ BeginScan(RequestedZoom, Pow2(RequestedZoom + 1), Pow2(RequestedZoom), SvSuffix)
    /\ JobGoes("sv_tile")
    /\ put(<<send_log("Using ID")>>
           \o (IF mode = "full" THEN <<send_log("Downloading tiles...")>> ELSE <<>>)
           \o <<send_log("Attempting download at zoom"), send_log("Grid size")>>)
    /\ UNCHANGED <<argVars, guiVars, callVars, tileFiles, unreadable, panoramas, urlFiles, successful_tiles,
                   probes, written>>

DownloadTemplateStart ==
    /\ pc = "single" /\ Job.url_type = "template" /\ mode \in {"full", "download"}
    /\ tileDirs' = tileDirs \cup {pano_id}
    /\ LET g == TemplateGrid(Job, SrvRect(Job.zoom))
       IN  /\ BeginScan(Job.zoom, g.width, g.height, TplSuffix)
           /\ probes' = g.probes
           /\ put((IF mode = "full" THEN <<send_log("Downloading tiles...")>> ELSE <<>>)
                  \o GridLog(Job, g)
                  \o <<send_log("Will attempt to download")>>)
    /\ JobGoes("tpl_tile")
    /\ UNCHANGED <<argVars, guiVars, callVars, tileFiles, unreadable, panoramas, urlFiles, successful_tiles,
                   written>>

\* Normalize-only and stitch-only modes need the tile directory (lines 650-653, 692-695).
ExistingDirCheck ==
    /\ pc = "single" /\ mode \in {"normalize", "stitch"}
    /\ IF pano_id \in tileDirs
       THEN JobGoes(mode) /\ put(<<>>)
       ELSE JobRaise("NoDirectory") /\ put(<<FailedToProcess>>)
    /\ UNCHANGED <<argVars, guiVars, callVars, diskVars, loopVars, successful_tiles, probes, written, attemptLog>>

\* ------------------------------------------------------------ tile fetchers
\* The check with > for >=.
EarlyAbortAfter(attempted, succ) == attempted > AbortAttempts /\ succ < AbortSuccesses

\* Early termination check (line 772).
EarlyAbort(attempted, succ) == attempted >= AbortAttempts /\ succ < AbortSuccesses

\* A loop body without the filepath.exists() skip.
TileOutcomeRefetch(sfx) ==
    LET f == TileFile(pano_id, x, y, zoom, sfx)
        r == download_image(Response(zoom, x, y))
        afterGet == IF r.wrote THEN tileFiles \cup {f} ELSE tileFiles
    IN  [file |-> f,
         exists |-> FALSE,
         succ |-> IF r.ok THEN successful + 1 ELSE successful,
         fail |-> IF ~r.ok THEN failed + 1 ELSE failed,
         files |-> IF r.ok THEN afterGet ELSE afterGet \ {f},
         wrote |-> r.wrote]

\* A loop body that counts a tile found on disk as successful and goes on to
\* request it and count the answer too.
TileOutcomeCountedTwice(sfx) ==
    LET f == TileFile(pano_id, x, y, zoom, sfx)
        exists == f \in tileFiles
        r == download_image(Response(zoom, x, y))
        afterGet == IF r.wrote THEN tileFiles \cup {f} ELSE tileFiles
    IN  [file |-> f,
         exists |-> FALSE,
         succ |-> successful + (IF exists THEN 1 ELSE 0) + (IF r.ok THEN 1 ELSE 0),
         fail |-> IF ~r.ok THEN failed + 1 ELSE failed,
         files |-> IF r.ok THEN afterGet ELSE afterGet \ {f},
         wrote |-> r.wrote]

\* The loop body for one coordinate: an existing file counts as successful with
\* no request; otherwise the tile is requested, and a failure removes the file.
TileOutcome(sfx) ==
    LET f == TileFile(pano_id, x, y, zoom, sfx)
        exists == f \in tileFiles
        r == download_image(Response(zoom, x, y))
        afterGet == IF r.wrote THEN tileFiles \cup {f} ELSE tileFiles
    IN  [file |-> f,
         exists |-> exists,
         succ |-> IF exists \/ r.ok THEN successful + 1 ELSE successful,
         fail |-> IF ~exists /\ ~r.ok THEN failed + 1 ELSE failed,
         files |-> IF exists THEN tileFiles ELSE IF r.ok THEN afterGet ELSE afterGet \ {f},
         wrote |-> ~exists /\ r.wrote]

ApplyTile(o) ==
    /\ tileFiles' = o.files
    /\ written' = IF o.wrote THEN written \cup {o.file} ELSE written
    /\ successful' = o.succ /\ failed' = o.fail
    /\ gets' = IF o.exists THEN gets ELSE gets + 1
    /\ visited' = visited + 1
    /\ UNCHANGED <<argVars, guiVars, callVars, tileDirs, unreadable, panoramas, urlFiles, zoom, width, height,
                   probes>>

\* One pass of the inner loop body of attempt_streetview_download_at_zoom, with
\* the checks that follow it. total_attempted is assigned only when a tile was
\* requested, and is read after each column (line 776).
StreetViewTile ==
    /\ pc = "sv_tile"
    /\ LET o == TileOutcome(SvSuffix)
           ta == IF o.exists THEN total_attempted ELSE o.succ + o.fail
           innerBreak == ~o.exists /\ EarlyAbort(ta, o.succ)
           columnEnd == innerBreak \/ y = height - 1
           unboundError == columnEnd /\ ta = Unbound
           outerBreak == columnEnd /\ ~unboundError /\ EarlyAbort(ta, o.succ)
           attemptEnd == columnEnd /\ ~unboundError /\ (outerBreak \/ x = width - 1)
       IN  /\ ApplyTile(o)
           /\ total_attempted' = ta
           /\ put((IF innerBreak THEN <<send_log("Low success rate - stopping")>> ELSE <<>>)
                  \o (IF unboundError THEN <<FailedToProcess>>
                      ELSE IF attemptEnd THEN <<send_log("Zoom: successful, failed")>>
                      ELSE <<>>))
           /\ IF unboundError
              THEN /\ JobRaise("UnboundLocalError")
                   /\ UNCHANGED <<x, y>>
              ELSE /\ JobGoes(IF attemptEnd THEN "sv_return" ELSE "sv_tile")
                   /\ x' = IF columnEnd /\ ~attemptEnd THEN x + 1 ELSE x
                   /\ y' = IF attemptEnd THEN y ELSE IF columnEnd THEN 0 ELSE y + 1
    /\ UNCHANGED <<successful_tiles, attemptLog>>

\* The fallback test with the early-abort threshold for the tally.
NeedsFallbackBelowFive(z, tally) == z = AutoZoom /\ tally < AbortSuccesses

\* Fallback to zoom 4 if zoom 5 failed (line 734).
NeedsFallback(z, tally) == z = AutoZoom /\ tally < FallbackTally

ReturnedAttempt == [attemptLog EXCEPT ![Len(attemptLog)] =
                        [@ EXCEPT !.tally = successful, !.gets = gets, !.visited = visited]]

\* The attempt returns its tally to download_streetview_tiles, which either runs
\* the second attempt at zoom 4 or returns the tally to the worker.
StreetViewAttemptReturn ==
    /\ pc = "sv_return"
    /\ IF NeedsFallback(zoom, successful)
       THEN /\ zoom' = FallbackZoom
            /\ width' = Pow2(FallbackZoom + 1) /\ height' = Pow2(FallbackZoom)
            /\ x' = 0 /\ y' = 0
            /\ successful' = 0 /\ failed' = 0 /\ total_attempted' = Unbound
            /\ gets' = 0 /\ visited' = 0
            /\ attemptLog' = Append(ReturnedAttempt,
                    [zoom |-> FallbackZoom,
                     tiles |-> Pow2(FallbackZoom + 1) * Pow2(FallbackZoom),
                     pre |-> Cardinality(GridFilesPresent(pano_id, FallbackZoom, SvSuffix,
                                 Pow2(FallbackZoom + 1), Pow2(FallbackZoom))),
                     tally |-> Unbound, gets |-> 0, visited |-> 0])
            /\ successful_tiles' = successful_tiles
            /\ JobGoes("sv_tile")
            /\ put(<<send_log("Zoom 5 download failed - falling back to zoom 4"),
                     send_log("Grid size")>>)
       ELSE /\ attemptLog' = ReturnedAttempt
            /\ successful_tiles' = successful
            /\ JobGoes("downloaded")
            /\ put(<<>>)
            /\ UNCHANGED loopVars
    /\ UNCHANGED <<argVars, guiVars, callVars, diskVars, probes, written>>

\* Template loops that carry the StreetView early termination check.
TemplateScanEndsEarly(cx, cy, w, h, succ, fail) ==
    (cx = w - 1 /\ cy = h - 1) \/ EarlyAbort(succ + fail, succ)

\* The loops of download_template_tiles run over the whole grid (lines 804-805).
TemplateScanEnds(cx, cy, w, h, succ, fail) == cx = w - 1 /\ cy = h - 1

\* One pass of the loop body of download_template_tiles; after the last
\* coordinate the tally is returned to the worker.
TemplateTile ==
    /\ pc = "tpl_tile"
    /\ LET o == TileOutcome(TplSuffix)
           ends == TemplateScanEnds(x, y, width, height, o.succ, o.fail)
       IN  /\ ApplyTile(o)
           /\ total_attempted' = total_attempted
           /\ x' = IF ~ends /\ y = height - 1 THEN x + 1 ELSE x
           /\ y' = IF ends THEN y ELSE IF y = height - 1 THEN 0 ELSE y + 1
           /\ successful_tiles' = IF ends THEN o.succ ELSE successful_tiles
           /\ attemptLog' = IF ends
                            THEN [attemptLog EXCEPT ![Len(attemptLog)] =
                                    [@ EXCEPT !.tally = o.succ,
                                              !.gets = IF o.exists THEN gets ELSE gets + 1,
                                              !.visited = visited + 1]]
                            ELSE attemptLog
           /\ put((IF ~o.exists /\ o.succ = successful + 1 /\ o.succ % 10 = 0
                   THEN <<send_log("Progress: tiles")>> ELSE <<>>)
                  \o (IF ends
                      THEN <<send_log("Download complete!"), send_log("Success rate")>>
                      ELSE <<>>))
           /\ JobGoes(IF ends THEN "downloaded" ELSE "tpl_tile")

\* ------------------------------------------------------ worker_function_single
\* A download counted as failed below the fallback tally.
DownloadFailedBelowTen(tally) == tally < FallbackTally

\* if successful_tiles == 0: raise Exception("Download failed - no tiles downloaded")
DownloadFailed(tally) == tally = 0

CheckDownload ==
    /\ pc = "downloaded"
    /\ IF DownloadFailed(successful_tiles)
       THEN JobRaise("DownloadFailure") /\ put(<<FailedToProcess>>)
       ELSE JobGoes(IF mode = "full" THEN "normalize" ELSE "cleanup") /\ put(<<>>)
    /\ UNCHANGED <<argVars, guiVars, callVars, diskVars, loopVars, successful_tiles, probes, written, attemptLog>>

\* The tiles of the job's directory that Image.open reads.
Readable(pano) == DirTiles(pano) \ unreadable

\* The tiles of the job's directory that Image.open raises on.
Corrupt(pano) == DirTiles(pano) \cap unreadable

\* The line the full pipeline logs before it calls a step (lines 634, 638).
StepLog(text) == IF mode = "full" THEN <<send_log(text)>> ELSE <<>>

\* normalize_tiles raises when it could read no tile. The tiles of this
\* specification have one size, so the size distribution is one line.
Normalize ==
    /\ pc = "normalize"
    /\ IF Readable(pano_id) = {}
       THEN /\ JobRaise("NoTilesToNormalize")
            /\ put(StepLog("Normalizing tiles...")
                   \o <<send_log("Normalizing tile sizes..."), FailedToProcess>>)
       ELSE /\ jobLog' = [jobLog EXCEPT ![Len(jobLog)].normalized = TRUE]
            /\ pc' = IF mode = "full" THEN "stitch" ELSE "cleanup"
            /\ UNCHANGED batchVars
            /\ put(StepLog("Normalizing tiles...")
                   \o <<send_log("Normalizing tile sizes..."),
                        send_log("Tile size distribution:"), send_log("size: count tiles"),
                        send_log("Normalizing all tiles to")>>
                   \o Repeat(Cardinality(Corrupt(pano_id)), send_log("Error resizing"))
                   \o <<send_log("Resized tiles")>>)
    /\ UNCHANGED <<argVars, guiVars, callVars, diskVars, loopVars, successful_tiles, probes, written, attemptLog>>

\* stitch_tiles raises when it loaded no tile, and otherwise saves <pano_id>.jpg.
Stitch ==
    /\ pc = "stitch"
    /\ IF Readable(pano_id) = {}
       THEN /\ JobRaise("NoTilesToStitch")
            /\ panoramas' = panoramas
            /\ put(StepLog("Stitching panorama...") \o <<send_log("Stitching panorama...")>>
                   \o Repeat(Cardinality(Corrupt(pano_id)), send_log("Error loading"))
                   \o <<FailedToProcess>>)
       ELSE /\ panoramas' = panoramas \cup {pano_id}
            /\ jobLog' = [jobLog EXCEPT ![Len(jobLog)].stitched = TRUE]
            /\ pc' = "cleanup"
            /\ UNCHANGED batchVars
            /\ put(StepLog("Stitching panorama...") \o <<send_log("Stitching panorama...")>>
                   \o Repeat(Cardinality(Corrupt(pano_id)), send_log("Error loading"))
                   \o <<send_log("Found tiles for zoom"), send_log("Canvas size"),
                        send_log("Tile size"), send_log("2:1 ratio"), send_log("Placed tiles"),
                        send_log("Final panorama size"), send_log("Panorama saved as")>>)
    /\ UNCHANGED <<argVars, guiVars, callVars, tileDirs, tileFiles, unreadable, urlFiles, loopVars,
                   successful_tiles, probes, written, attemptLog>>

\* A cleanup condition without the mode test.
ShouldCleanupAnyMode(del, m, dirExists) == del /\ dirExists

\* Clean up tiles if requested and we did stitching (line 703).
ShouldCleanup(del, m, dirExists) == del /\ m \in {"full", "stitch"} /\ dirExists

\* What shutil.rmtree(temp_dir) can do: remove the tree, or raise (a file that is
\* still open or read-only, a permission error) and leave the directory behind.
RmtreeOutcomes == {"removed", "error"}

\* The end of worker_function_single, and the batch loop counting the job.
\* shutil.rmtree is called outside any try block: when it raises, the exception
\* leaves worker_function_single as every other one does.
Cleanup ==
    /\ pc = "cleanup"
    /\ IF ShouldCleanup(delete_tiles, mode, pano_id \in tileDirs)
       THEN \E rm \in RmtreeOutcomes :
              IF rm = "removed"
              THEN /\ tileDirs' = tileDirs \ {pano_id}
                   /\ tileFiles' = tileFiles \ DirTiles(pano_id)
                   /\ unreadable' = unreadable \ DirTiles(pano_id)
                   /\ jobLog' = [jobLog EXCEPT ![Len(jobLog)].cleaned = TRUE,
                                               ![Len(jobLog)].outcome = "ok"]
                   /\ batch_successful' = batch_successful + 1
                   /\ pc' = "batch"
                   /\ UNCHANGED <<idx, batch_failed>>
                   /\ put(<<send_log("Cleaning up tiles..."), send_log("Tile folder deleted"),
                            send_log("Successfully processed")>>)
              ELSE /\ JobRaise("CleanupFailure")
                   /\ UNCHANGED <<tileDirs, tileFiles, unreadable>>
                   /\ put(<<send_log("Cleaning up tiles..."), FailedToProcess>>)
       ELSE /\ UNCHANGED <<tileDirs, tileFiles, unreadable>>
            /\ jobLog' = [jobLog EXCEPT ![Len(jobLog)].outcome = "ok"]
            /\ batch_successful' = batch_successful + 1
            /\ pc' = "batch"
            /\ UNCHANGED <<idx, batch_failed>>
            /\ put(<<send_log("Successfully processed")>>)
    /\ UNCHANGED <<argVars, guiVars, callVars, panoramas, urlFiles, loopVars,
                   successful_tiles, probes, written, attemptLog>>

\* A worker that logs the summary after the "finished" message.
BatchSummaryFinishedFirst ==
    <<finished_message, send_log("===="), send_log("BATCH COMPLETE"), send_log("Total"),
      send_log("===="), update_progress("Batch Complete!", 100)>>

\* A worker that ends without the "finished" message.
BatchSummaryWithoutFinished ==
    <<send_log("===="), send_log("BATCH COMPLETE"), send_log("Total"), send_log("===="),
      update_progress("Batch Complete!", 100)>>

\* The messages of lines 588-600.
BatchSummary ==
    <<send_log("===="), send_log("BATCH COMPLETE"), send_log("Total"), send_log("===="),
      update_progress("Batch Complete!", 100), finished_message>>

\* After the last URL: the summary and the "finished" message.
BatchFinish ==
    /\ pc = "batch" /\ idx >= Len(urls_to_process)
    /\ pc' = "finished"
    /\ put(BatchSummary)
    /\ UNCHANGED <<argVars, guiVars, callVars, diskVars, batchVars, loopVars,
                   successful_tiles, probes, written, attemptLog, jobLog>>

\* ------------------------------------------------------ start_progress_monitor
\* A queue that hands out the newest message.
get_nowait_newest(q) == [msg |-> q[Len(q)], rest |-> SubSeq(q, 1, Len(q) - 1)]

\* queue.Queue is first in, first out.
get_nowait(q) == [msg |-> Head(q), rest |-> Tail(q)]

\* The while loop of lines 1164-1178: it takes messages until the queue is
\* empty or the message is "finished".
RECURSIVE MonitorLoop(_, _)
MonitorLoop(q, done) ==
    IF q = <<>>
    THEN [queue |-> q, handled |-> done, finished |-> FALSE]
    ELSE CHOOSE r \in
            {IF got.msg[1] = "finished"
             THEN [queue |-> got.rest, handled |-> Append(done, got.msg), finished |-> TRUE]
             ELSE MonitorLoop(got.rest, Append(done, got.msg)) : got \in {get_nowait(q)}} : TRUE

\* One call of the timer callback with messages waiting. A message put while
\* the loop runs is taken by it as if it had been put before the call.
start_progress_monitor ==
    /\ progress_queue # <<>>
    /\ LET r == MonitorLoop(progress_queue, <<>>)
       IN  /\ progress_queue' = r.queue
           /\ handled' = handled \o r.handled
           /\ is_running' = IF r.finished THEN FALSE ELSE is_running
    /\ UNCHANGED <<argVars, callVars, diskVars, pc, batchVars, loopVars, successful_tiles,
                   probes, written, attemptLog, jobLog, clicked>>

Next ==
    \/ StartJob
    \/ DownloadStreetViewStart
    \/ DownloadTemplateStart
    \/ ExistingDirCheck
    \/ StreetViewTile
    \/ StreetViewAttemptReturn
    \/ TemplateTile
    \/ CheckDownload
    \/ Normalize
    \/ Stitch
    \/ Cleanup
    \/ BatchFinish

Spec == Init /\ [][Next]_vars

\* ------------------------------------------------- the worker and the window
\* The worker thread beside the window's timer callback, over short jobs.
GuiScenario ==
    /\ zoom_mode = "manual" /\ zoom_level = 0
    /\ srv5 = <<0, 0>>
    /\ \A i \in 1..Len(urls_to_process) :
        urls_to_process[i].url_type = "template"
            => urls_to_process[i].placeholders /\ urls_to_process[i].zoom = TplJob.zoom
    /\ (tileFiles = {} \/ unreadable = {})

InitGui == Init /\ GuiScenario

NextGui ==
    \/ Next
    \/ start_progress_monitor

SpecGui == InitGui /\ [][NextGui]_vars

\* ------------------------------------------------ functions called on their own
\* The window as __init__ leaves it (lines 33-36), with no worker thread yet.
Idle ==
    /\ urls_to_process = <<>> /\ mode = "full" /\ zoom_mode = "auto"
    /\ zoom_level = AutoZoom /\ delete_tiles = FALSE
    /\ idx = 0 /\ batch_successful = 0 /\ batch_failed = 0
    /\ zoom = 0 /\ width = 0 /\ height = 0 /\ x = 0 /\ y = 0
    /\ successful = 0 /\ failed = 0 /\ total_attempted = Unbound
    /\ successful_tiles = 0
    /\ gets = 0 /\ visited = 0 /\ probes = 0 /\ written = {}
    /\ attemptLog = <<>> /\ jobLog = <<>>
    /\ progress_queue = <<>> /\ is_running = FALSE /\ handled = <<>>
    /\ clicked = "none"

\* No worker runs: one function is called on an input, and output is what it returns.
NoWorker ==
    /\ Idle
    /\ srv5 = <<0, 0>> /\ srvLow = <<0, 0>>
    /\ tileDirs = {} /\ tileFiles = {} /\ unreadable = {}
    /\ panoramas = {} /\ urlFiles = {}

workerVars == <<argVars, diskVars, batchVars, loopVars, successful_tiles, probes, written,
                attemptLog, jobLog, progress_queue, guiVars>>

Call(fn) == pc = "call" /\ input.fn = fn
Return(value) == output' = value /\ pc' = "return" /\ UNCHANGED <<input, workerVars>>

\* ---------------------------------------------------------- the grid resolver
\* Probe answers: the x at which the probe of (x, 0) answers 200 and the y at
\* which the probe of (0, y) does, among positions on and off the coarse steps.
ProbeColumns == {0, 4, 13, 24, 40, 45, 63}
ProbeRows == {0, 2, 7, 12, 31}

\* Beside them, servers that hold a full rectangle [0, w) x [0, h) of tiles:
\* every width against the heights of RectSides, and every height against the
\* widths of RectSides.
RectSides(n) == {k \in 1..n : k \in {1, 3, 14, 15} \/ 2 * k = n \/ k = n}
GridInputs ==
    UNION {[fn : {"find_grid_boundaries", "auto_detect_grid"}, zoom : {z},
            presentX : SUBSET (ProbeColumns \cap (0..(TheoreticalX(z) - 1))),
            presentY : SUBSET (ProbeRows \cap (0..(TheoreticalY(z) - 1)))]
           \cup [fn : {"find_grid_boundaries", "auto_detect_grid"}, zoom : {z},
                 presentX : {0..(w - 1) : w \in 1..TheoreticalX(z)},
                 presentY : {0..(h - 1) : h \in RectSides(TheoreticalY(z))}]
           \cup [fn : {"find_grid_boundaries", "auto_detect_grid"}, zoom : {z},
                 presentX : {0..(w - 1) : w \in RectSides(TheoreticalX(z))},
                 presentY : {0..(h - 1) : h \in 1..TheoreticalY(z)}] :
           z \in 0..MaxGridZoom}

InitGrid == NoWorker /\ pc = "call" /\ input \in GridInputs /\ output = <<>>

FindGridBoundaries ==
    /\ Call("find_grid_boundaries")
    /\ Return(GridSearch(input.zoom, input.presentX, input.presentY))

AutoDetectGrid ==
    /\ Call("auto_detect_grid")
    /\ Return(GridSearch(input.zoom, input.presentX, input.presentY))

NextGrid ==
    \/ FindGridBoundaries
    \/ AutoDetectGrid

SpecGrid == InitGrid /\ [][NextGrid]_vars

\* --------------------------------------------------- normalize and stitch
\* A .jpg file of a tile directory: the coordinates and zoom in its name (matches
\* is whether the name holds x<digits>-y<digits>-zoom<digits>), whether
\* Image.open reads it, and its pixel size.
Tile(cx, cy, z, w, h) ==
    [x |-> cx, y |-> cy, zoom |-> z, matches |-> TRUE, readable |-> TRUE, size |-> <<w, h>>]
CorruptTile == [x |-> 4, y |-> 3, zoom |-> 4, matches |-> TRUE, readable |-> FALSE,
                size |-> <<0, 0>>]
OtherJpg == [x |-> 0, y |-> 0, zoom |-> 0, matches |-> FALSE, readable |-> TRUE,
             size |-> <<1024, 1024>>]

TilePool ==
    {Tile(0, 0, 4, 512, 512), Tile(1, 0, 4, 512, 512), Tile(3, 1, 4, 512, 512),
     Tile(3, 2, 4, 512, 512), Tile(0, 1, 4, 256, 256), Tile(3, 0, 4, 512, 900),
     Tile(2, 0, 4, 512, 256), Tile(2, 1, 4, 256, 512), CorruptTile, OtherJpg}

\* The files of a directory in the order glob yields them.
Directories ==
    {d \in UNION {[1..n -> TilePool] : n \in 0..MaxTiles} :
        \A i, j \in 1..Len(d) : i # j => d[i] # d[j]}

Area(size) == size[1] * size[2]

\* The first loop of normalize_tiles (lines 1014-1025) from file i on: the first
\* readable size of the largest area.
RECURSIVE LargestSize(_, _, _)
LargestSize(files, i, largest) ==
    IF i > Len(files) THEN largest
    ELSE LargestSize(files, i + 1,
            IF files[i].readable /\ Area(files[i].size) > Area(largest)
            THEN files[i].size ELSE largest)

\* A normalizer that takes the size of the first readable tile.
NormalizeTargetFirst(files) ==
    LET readable == {i \in 1..Len(files) : files[i].readable}
    IN  IF readable = {} THEN <<0, 0>>
        ELSE files[CHOOSE i \in readable : \A j \in readable : i <= j].size

NormalizeTarget(files) == LargestSize(files, 1, <<0, 0>>)

\* A normalizer whose resize takes the target's width and keeps a tile's height.
normalize_tiles_width_only(files) ==
    LET sizes == {files[i].size : i \in {j \in 1..Len(files) : files[j].readable}}
        largest_size == NormalizeTarget(files)
        resized == {i \in 1..Len(files) : files[i].readable /\ files[i].size # largest_size}
    IN  IF sizes = {}
        THEN [error |-> "No tiles found to normalize", largest_size |-> <<0, 0>>,
              files |-> files, resized |-> {}]
        ELSE [error |-> "none", largest_size |-> largest_size,
              files |-> [i \in 1..Len(files) |->
                            IF i \in resized
                            THEN [files[i] EXCEPT !.size = <<largest_size[1], files[i].size[2]>>]
                            ELSE files[i]],
              resized |-> resized]

\* normalize_tiles: what it raises, the size it normalizes to, the files
\* afterwards and the positions of those it rewrote.
normalize_tiles(files) ==
    LET sizes == {files[i].size : i \in {j \in 1..Len(files) : files[j].readable}}
        largest_size == NormalizeTarget(files)
        resized == {i \in 1..Len(files) : files[i].readable /\ files[i].size # largest_size}
    IN  IF sizes = {}
        THEN [error |-> "No tiles found to normalize", largest_size |-> <<0, 0>>,
              files |-> files, resized |-> {}]
        ELSE [error |-> "none", largest_size |-> largest_size,
              files |-> [i \in 1..Len(files) |->
                            IF i \in resized THEN [files[i] EXCEPT !.size = largest_size]
                            ELSE files[i]],
              resized |-> resized]

\* An aspect correction that only crops.
AspectCropOnly(canvas_width, canvas_height) ==
    LET target_height == canvas_width \div 2
    IN  [width |-> canvas_width, height |-> Min(canvas_height, target_height),
         kept |-> Min(canvas_height, target_height), padded |-> 0]

\* Lines 1107-1120: the saved image has the canvas' rows [0, kept) followed by
\* padded black rows.
AspectCorrect(canvas_width, canvas_height) ==
    LET target_height == canvas_width \div 2
    IN  IF canvas_height > target_height
        THEN [width |-> canvas_width, height |-> target_height,
              kept |-> target_height, padded |-> 0]
        ELSE IF canvas_height < target_height
        THEN [width |-> canvas_width, height |-> target_height,
              kept |-> canvas_height, padded |-> target_height - canvas_height]
        ELSE [width |-> canvas_width, height |-> canvas_height,
              kept |-> canvas_height, padded |-> 0]

\* A loader that takes every readable .jpg, whatever its name.
IsLoadedAnyName(file) == file.readable

\* A file stitch_tiles loads: its name matches the pattern (line 1062) and
\* Image.open reads it (lines 1067-1076).
IsLoaded(file) == file.matches /\ file.readable

\* The test before a paste (line 1103).
Fits(paste) == paste.fits

\* A canvas sized from the greatest coordinates named in the directory.
StitchMaxNamed(files, tiles) ==
    [x |-> GreatestOr({files[i].x : i \in {j \in 1..Len(files) : files[j].matches}}, 0),
     y |-> GreatestOr({files[i].y : i \in {j \in 1..Len(files) : files[j].matches}}, 0)]

\* A canvas sized from the coordinates of the first loaded tile.
StitchMaxFirst(files, tiles) == [x |-> tiles[1].x, y |-> tiles[1].y]

\* max(tile['x'] ...), max(tile['y'] ...) over the loaded tiles (lines 1085-1086).
StitchMax(files, tiles) ==
    [x |-> GreatestOr({tiles[i].x : i \in 1..Len(tiles)}, 0),
     y |-> GreatestOr({tiles[i].y : i \in 1..Len(tiles)}, 0)]

\* stitch_tiles: what it raises, the canvas, the pastes in order (a later paste
\* covers an earlier one), and the image it saves.
stitch_tiles(files) ==
    LET tiles == SelectSeq(files, IsLoaded)
    IN  IF tiles = <<>>
        THEN [error |-> "No tiles found for stitching", saved |-> FALSE]
        ELSE LET tile_width == tiles[1].size[1]
                 tile_height == tiles[1].size[2]
                 most == StitchMax(files, tiles)
                 canvas_width == (most.x + 1) * tile_width
                 canvas_height == (most.y + 1) * tile_height
                 fits(i) == /\ tiles[i].x * tile_width + tile_width <= canvas_width
                            /\ tiles[i].y * tile_height + tile_height <= canvas_height
                 pasted == SelectSeq([i \in 1..Len(tiles) |->
                                [tile |-> tiles[i], fits |-> fits(i),
                                 x_pos |-> tiles[i].x * tile_width,
                                 y_pos |-> tiles[i].y * tile_height]], Fits)
             IN  [error |-> "none", saved |-> TRUE,
                  tiles |-> tiles, tile_width |-> tile_width, tile_height |-> tile_height,
                  max_x |-> most.x, max_y |-> most.y,
                  canvas_width |-> canvas_width, canvas_height |-> canvas_height,
                  pasted |-> pasted,
                  panorama |-> AspectCorrect(canvas_width, canvas_height)]

ImageInputs ==
    [fn : {"normalize_tiles", "stitch_tiles"}, exists : {TRUE}, files : Directories]
    \cup [fn : {"normalize_tiles", "stitch_tiles"}, exists : {FALSE}, files : {<<>>}]

InitImage == NoWorker /\ pc = "call" /\ input \in ImageInputs /\ output = <<>>

NormalizeTiles ==
    /\ Call("normalize_tiles")
    /\ Return(normalize_tiles(input.files))

StitchTiles ==
    /\ Call("stitch_tiles")
    /\ Return(stitch_tiles(input.files))

NextImage ==
    \/ NormalizeTiles
    \/ StitchTiles

SpecImage == InitImage /\ [][NextImage]_vars

\* ------------------------------------------------------------------- URLs
\* A URL is the sequence of its characters.
UpperCase == <<"A", "B", "C", "D", "E", "F", "G", "H", "I", "J", "K", "L", "M",
               "N", "O", "P", "Q", "R", "S", "T", "U", "V", "W", "X", "Y", "Z">>
LowerCase == <<"a", "b", "c", "d", "e", "f", "g", "h", "i", "j", "k", "l", "m",
               "n", "o", "p", "q", "r", "s", "t", "u", "v", "w", "x", "y", "z">>
Digits == {"0", "1", "2", "3", "4", "5", "6", "7", "8", "9"}
\* [A-Za-z0-9_-]
TokenChars ==
    {UpperCase[i] : i \in 1..26} \cup {LowerCase[i] : i \in 1..26} \cup Digits \cup {"_", "-"}

Lower(c) == IF \E i \in 1..26 : UpperCase[i] = c
            THEN LowerCase[CHOOSE i \in 1..26 : UpperCase[i] = c] ELSE c
LowerAll(str) == [i \in 1..Len(str) |-> Lower(str[i])]

StartsWith(str, prefix) ==
    Len(str) >= Len(prefix) /\ SubSeq(str, 1, Len(prefix)) = prefix
\* The positions at which the literal sub starts in str.
Occurrences(str, sub) ==
    {i \in 1..(Len(str) - Len(sub) + 1) : SubSeq(str, i, i + Len(sub) - 1) = sub}
Contains(str, sub) == Occurrences(str, sub) # {}

\* The end of the longest run of characters of a class that starts at i.
RunEnd(str, i, class) ==
    CHOOSE j \in i..Len(str) :
        /\ \A k \in i..j : str[k] \in class
        /\ (j = Len(str) \/ str[j + 1] \notin class)

\* str.strip() for blanks.
RECURSIVE Strip(_)
Strip(str) ==
    IF str = <<>> THEN str
    ELSE IF Head(str) = " " THEN Strip(Tail(str))
    ELSE IF str[Len(str)] = " " THEN Strip(SubSeq(str, 1, Len(str) - 1))
    ELSE str

None == <<>>

\* re.search(r'id=([A-Za-z0-9_-]+)', url, re.IGNORECASE): group 1 of the
\* leftmost match, or None.
extract_id_from_url(url) ==
    LET at == {i \in Occurrences(LowerAll(url), <<"i", "d", "=">>) :
                  i + 3 <= Len(url) /\ url[i + 3] \in TokenChars}
    IN  IF at = {} THEN None
        ELSE LET first == CHOOSE i \in at : \A j \in at : i <= j
             IN  SubSeq(url, first + 3, RunEnd(url, first + 3, TokenChars))

\* Characters outside ASCII that a user can type: a letter and a digit of other
\* scripts, which are alphanumeric to Python, and a symbol, which is not.
UnicodeAlnum == {"é", "²"}
UnicodeSymbol == "£"

\* The class [\w\-] of a str pattern: \w is every Unicode alphanumeric and the
\* underscore, not only [A-Za-z0-9_].
WordOrHyphen == TokenChars \cup UnicodeAlnum

\* What simpledialog.askstring returned: the text typed, or cancelled.
\* prompt_for_id returns None for a cancelled dialog and for an empty text, and
\* otherwise re.sub(r'[^\w\-]', '_', user_input).
prompt_for_id(dialog) ==
    IF dialog.cancelled \/ dialog.text = <<>> THEN None
    ELSE [i \in 1..Len(dialog.text) |->
            IF dialog.text[i] \in WordOrHyphen THEN dialog.text[i] ELSE "_"]

\* re.search(r'[&?]<name>=\d+', url), which has no IGNORECASE flag.
HasCoordinate(url, name) ==
    \E i \in 1..(Len(url) - 3) :
        /\ url[i] \in {"&", "?"} /\ url[i + 1] = name /\ url[i + 2] = "="
        /\ url[i + 3] \in Digits

\* '[%X]' in url and '[%Y]' in url (lines 395, 789).
HasPlaceholders(url) ==
    Contains(url, <<"[", "%", "X", "]">>) /\ Contains(url, <<"[", "%", "Y", "]">>)

validate_url(raw) ==
    LET url == Strip(raw)
    IN  IF url = <<>> THEN [url_type |-> None, error |-> "Empty URL"]
        ELSE IF ~StartsWith(url, <<"h", "t", "t", "p">>)
        THEN [url_type |-> None, error |-> "URL must start with http:// or https://"]
        ELSE IF HasPlaceholders(url) THEN [url_type |-> "template", error |-> "none"]
        ELSE IF HasCoordinate(url, "x") /\ HasCoordinate(url, "y")
        THEN [url_type |-> "template", error |-> "none"]
        ELSE [url_type |-> "streetview", error |-> "none"]

\* URLs made of a scheme and host followed by pieces that the patterns look for.
UrlHeads == {<<"h", "t", "t", "p", ":", "/", "/", "h", "/">>,
             <<"f", "t", "p", ":", "/", "/", "h", "/">>}
UrlPieces ==
    {<<"?", "i", "d", "=">>,
     <<"&", "p", "a", "n", "o", "i", "d", "=">>,
     <<"I", "D", "=">>,
     <<"1", "s">>,
     <<"Z", "_", "9", "-", "b">>,
     <<"!">>,
     <<"[", "%", "X", "]">>,
     <<"[", "%", "Y", "]">>,
     <<"&", "x", "=", "7">>,
     <<"?", "y", "=", "7">>,
     <<"&", "X", "=", "7">>,
     <<"?", "Y", "=", "7">>,
     <<"&", "x", "=">>,
     <<"y", "=", "7">>,
     <<" ">>}

RECURSIVE Concat(_)
Concat(pieces) == IF pieces = <<>> THEN <<>> ELSE Head(pieces) \o Concat(Tail(pieces))

Urls ==
    {head \o Concat(pieces) :
        head \in UrlHeads, pieces \in UNION {[1..n -> UrlPieces] : n \in 0..MaxPieces}}

\* What a user types as a name, and the dialog closed without one.
TypedChars == {"a", "Z", "9", "_", "-", " ", "/", ".", UnicodeSymbol} \cup UnicodeAlnum
Dialogs ==
    [cancelled : {FALSE}, text : UNION {[1..n -> TypedChars] : n \in 0..MaxPieces}]
        \cup {[cancelled |-> TRUE, text |-> <<>>]}

InitUrl ==
    /\ NoWorker /\ pc = "call" /\ output = <<>>
    /\ input \in [fn : {"extract_id_from_url", "validate_url"}, url : Urls]
                    \cup [fn : {"prompt_for_id"}, dialog : Dialogs]

ExtractId ==
    /\ Call("extract_id_from_url")
    /\ Return([id |-> extract_id_from_url(input.url)])

ValidateUrl ==
    /\ Call("validate_url")
    /\ Return(validate_url(input.url))

PromptForId ==
    /\ Call("prompt_for_id")
    /\ Return([id |-> prompt_for_id(input.dialog)])

NextUrl ==
    \/ ExtractId
    \/ ValidateUrl
    \/ PromptForId

SpecUrl == InitUrl /\ [][NextUrl]_vars

\* ------------------------------------------------------------ start_download
\* int() of a run of decimal digits.
RECURSIVE int(_)
int(digits) ==
    IF digits = <<>> THEN 0
    ELSE 10 * int(SubSeq(digits, 1, Len(digits) - 1))
         + (CHOOSE n \in 0..9 : ToString(n) = digits[Len(digits)])

\* The leftmost match of zoom[=:](\d+), else that of [&?]z[=:](\d+), both with
\* re.IGNORECASE, else 5.
extract_zoom_from_url(url) ==
    LET low == LowerAll(url)
        zoomAt == {i \in Occurrences(low, <<"z", "o", "o", "m">>) :
                      /\ i + 5 <= Len(url)
                      /\ url[i + 4] \in {"=", ":"} /\ url[i + 5] \in Digits}
        zAt == {i \in 1..(Len(url) - 3) :
                   /\ url[i] \in {"&", "?"} /\ low[i + 1] = "z"
                   /\ url[i + 2] \in {"=", ":"} /\ url[i + 3] \in Digits}
        number(at) == int(SubSeq(url, at, RunEnd(url, at, Digits)))
    IN  IF zoomAt # {} THEN number((CHOOSE i \in zoomAt : \A j \in zoomAt : i <= j) + 5)
        ELSE IF zAt # {} THEN number((CHOOSE i \in zAt : \A j \in zAt : i <= j) + 3)
        ELSE 5

\* The tuple (url, url_type, pano_id) appended to urls_to_process, with what the
\* worker reads off the URL: the placeholders test of line 789, the zoom of
\* lines 667 and 685, and whether requests can fetch the tiles (StreetView tiles
\* come from a fixed https host, template tiles from the URL itself).
JobOf(url, url_type, id) ==
    [url_type |-> url_type, placeholders |-> HasPlaceholders(url),
     zoom |-> extract_zoom_from_url(url), pano_id |-> id,
     fetchable |-> \/ url_type = "streetview"
                   \/ StartsWith(url, <<"h", "t", "t", "p", ":", "/", "/">>)
                   \/ StartsWith(url, <<"h", "t", "t", "p", "s", ":", "/", "/">>)]

\* A test that never finds the panorama.
check_panorama_missing(output_dir, id) == FALSE

\* (Path(output_dir) / f"{pano_id}.jpg").exists(): output_dir is given by the
\* identifiers whose panorama it holds.
check_panorama_exists(output_dir, id) == id \in output_dir

\* The handler returned with a message, or went on to start the worker.
Refused(message) == [verdict |-> message, urls_to_process |-> <<>>, mode |-> "full"]
Accepted(form, jobs) == [verdict |-> "started", urls_to_process |-> jobs, mode |-> form.mode]

\* Single URL mode (lines 438-473).
SingleUrl(form, output_dir) ==
    LET url == Strip(form.url)
        found == extract_id_from_url(url)
        id == IF found # None THEN found ELSE prompt_for_id(form.dialog)
    IN  IF url = <<>> THEN Refused("Please enter a URL")
        ELSE IF form.url_type = "streetview" /\ ~StartsWith(url, <<"h", "t", "t", "p">>)
        THEN Refused("Please enter a valid URL")
        ELSE IF form.url_type = "template" /\ ~HasPlaceholders(url)
        THEN Refused("Template URL must contain [%X] and [%Y] placeholders")
        ELSE IF id = None THEN Refused("User cancelled")
        ELSE IF check_panorama_exists(output_dir, id) THEN Refused("already exists - skipping")
        ELSE Accepted(form, <<JobOf(url, form.url_type, id)>>)

\* validate_batch_urls (lines 403-421): the stripped lines that are not blank
\* and that validate_url accepts.
RECURSIVE validate_batch_urls(_)
validate_batch_urls(lines) ==
    IF lines = <<>> THEN <<>>
    ELSE LET before == validate_batch_urls(SubSeq(lines, 1, Len(lines) - 1))
             line == Strip(lines[Len(lines)])
         IN  IF line # <<>> /\ validate_url(line).error = "none"
             THEN Append(before, line) ELSE before

\* A batch loop that keeps a line in which no identifier is found.
RECURSIVE KeptWithoutId(_, _)
KeptWithoutId(valid, output_dir) ==
    IF valid = <<>> THEN <<>>
    ELSE LET before == KeptWithoutId(SubSeq(valid, 1, Len(valid) - 1), output_dir)
             line == valid[Len(valid)]
             id == extract_id_from_url(line)
         IN  IF check_panorama_exists(output_dir, id)
             THEN before
             ELSE Append(before, JobOf(line, validate_url(line).url_type, id))

\* The loop of lines 504-519 appends (url, url_type, pano_id) for a valid URL
\* when an identifier is found in it and no panorama of that name is on disk.
RECURSIVE Kept(_, _)
Kept(valid, output_dir) ==
    IF valid = <<>> THEN <<>>
    ELSE LET before == Kept(SubSeq(valid, 1, Len(valid) - 1), output_dir)
             line == valid[Len(valid)]
             id == extract_id_from_url(line)
         IN  IF id = None \/ check_panorama_exists(output_dir, id)
             THEN before
             ELSE Append(before, JobOf(line, validate_url(line).url_type, id))

\* Batch mode (lines 476-526): validate_batch_urls, the confirmation dialog,
\* and the loop that extracts the identifiers.
BatchUrls(form, output_dir) ==
    LET valid == validate_batch_urls(form.lines)
        kept == Kept(valid, output_dir)
    IN  IF valid = <<>> THEN Refused("No valid URLs found")
        ELSE IF ~form.confirm THEN Refused("Declined")
        ELSE IF kept = <<>> THEN Refused("No URLs to process (all skipped)")
        ELSE Accepted(form, kept)

\* What the handler decides once is_running is seen false.
Decision(form, output_dir) ==
    IF Strip(form.output_dir) = <<>> THEN Refused("Please select an output directory")
    ELSE IF form.processing_mode = "single" THEN SingleUrl(form, output_dir)
    ELSE BatchUrls(form, output_dir)

\* A handler that never looks at is_running.
BusyNever == FALSE

\* if self.is_running: return (lines 427-428)
Busy == is_running

\* What the user left in the window when pressing Start: URLs with and without
\* an identifier, two giving the same one, templates reached over http and over
\* another scheme, and a blank; the name typed when asked for one; the answer
\* to the batch confirmation.
AppUrls ==
    LET http == <<"h", "t", "t", "p", ":", "/", "/", "h", "/">>
        ftp == <<"f", "t", "p", ":", "/", "/", "h", "/">>
        template == <<"[", "%", "X", "]", "[", "%", "Y", "]", "z", "o", "o", "m", "=", "0">>
    IN  {http \o <<"?", "i", "d", "=", "a">>,
         http \o <<"&", "p", "a", "n", "o", "i", "d", "=", "a">>,
         http \o <<"!">>,
         http \o template \o <<"?", "i", "d", "=", "b">>,
         ftp \o template \o <<"?", "i", "d", "=", "b">>,
         <<" ">>}

\* The batch file holds up to MaxJobs lines; the confirmation is declined on
\* the one-line files.
Forms ==
    {f \in [output_dir : {<<"o">>}, processing_mode : {"single"}, url : AppUrls,
            url_type : {"streetview", "template"},
            dialog : {[cancelled |-> TRUE, text |-> <<>>], [cancelled |-> FALSE, text |-> <<"b">>]},
            lines : {<<>>}, confirm : {TRUE}, mode : {"full"}] :
        ~f.dialog.cancelled => extract_id_from_url(f.url) = None}
    \cup {f \in [output_dir : {<<"o">>}, processing_mode : {"batch"}, url : {<<>>},
                 url_type : {"streetview"}, dialog : {[cancelled |-> TRUE, text |-> <<>>]},
                 lines : UNION {[1..n -> AppUrls] : n \in 1..MaxJobs},
                 confirm : BOOLEAN, mode : {"stitch"}] :
             ~f.confirm => Len(f.lines) = 1}
    \cup [output_dir : {<<" ">>}, processing_mode : {"single"}, url : {<<" ">>},
          url_type : {"streetview"}, dialog : {[cancelled |-> TRUE, text |-> <<>>]},
          lines : {<<>>}, confirm : {TRUE}, mode : {"full"}]

\* The decisions the handler can come to, over the forms, paired with the set
\* of panoramas the output directory holds.
Decisions ==
    {<<output_dir, Decision(form, output_dir)>> :
        output_dir \in SUBSET {<<"a">>, <<"b">>}, form \in Forms}

\* The end of the handler: it returns on a refusal, and otherwise starts the
\* worker thread on urls_to_process (lines 528-548). The options are Force Zoom
\* 0 and tiles kept.
Decided(d) ==
    /\ clicked' = d.verdict
    /\ IF d.verdict = "started"
       THEN /\ is_running' = TRUE
            /\ urls_to_process' = d.urls_to_process
            /\ mode' = d.mode /\ zoom_mode' = "manual" /\ zoom_level' = 0
            /\ delete_tiles' = FALSE
            /\ pc' = "batch"
            /\ idx' = 0 /\ batch_successful' = 0 /\ batch_failed' = 0
            /\ zoom' = 0 /\ width' = 0 /\ height' = 0 /\ x' = 0 /\ y' = 0
            /\ successful' = 0 /\ failed' = 0 /\ total_attempted' = Unbound
            /\ successful_tiles' = 0
            /\ gets' = 0 /\ visited' = 0 /\ probes' = 0 /\ written' = {}
            /\ attemptLog' = <<>> /\ jobLog' = <<>> /\ handled' = <<>>
            /\ UNCHANGED <<srv5, srvLow, diskVars, progress_queue, callVars>>
       ELSE UNCHANGED <<argVars, diskVars, pc, batchVars, loopVars,
                        successful_tiles, probes, written, attemptLog, jobLog,
                        progress_queue, is_running, handled, callVars>>

\* The button handler: with a run on it returns at once; otherwise it acts on
\* what the window holds.
start_download ==
    IF Busy
    THEN /\ clicked' = "busy"
         /\ UNCHANGED <<argVars, diskVars, pc, batchVars, loopVars, successful_tiles, probes,
                        written, attemptLog, jobLog, progress_queue, is_running, handled,
                        callVars>>
    ELSE \E d \in Decisions : d[1] = panoramas /\ Decided(d[2])

\* The window and its worker: no worker thread at first, a server with three
\* tiles at the low zooms, and an output directory that is empty or holds the
\* tile directory of identifier a with one tile of zoom 0.
InitApp ==
    /\ Idle /\ pc = "idle" /\ input = <<>> /\ output = <<>>
    /\ srv5 = <<0, 0>> /\ srvLow = <<1, 3>>
    /\ tileDirs \in {{}, {<<"a">>}}
    /\ tileFiles = {TileFile(id, 0, 0, 0, SvSuffix) : id \in tileDirs}
    /\ unreadable = {} /\ panoramas = {} /\ urlFiles = {}

NextApp ==
    \/ Next
    \/ start_progress_monitor
    \/ start_download

SpecApp == InitApp /\ [][NextApp]_vars

\* The worker thread is scheduled while it has a step to take, and the timer
\* re-arms itself with root.after(100, ...) at the end of every call (line 1184).
SpecAppLive == SpecApp /\ WF_vars(Next) /\ WF_vars(start_progress_monitor)

\* ------------------------------------------------- start_download, one call
\* The handler called once with no run in progress, on every form and on every
\* set of panoramas the output directory can hold.
InitStart ==
    /\ NoWorker /\ pc = "call" /\ output = <<>>
    /\ input \in [fn : {"start_download"}, form : Forms,
                   output_dir : SUBSET {<<"a">>, <<"b">>}]

StartDownloadCall ==
    /\ Call("start_download")
    /\ Return(Decision(input.form, input.output_dir))

NextStart ==
    \/ StartDownloadCall

SpecStart == InitStart /\ [][NextStart]_vars

\* ================================================================== claims
InFetch == pc \in {"sv_tile", "sv_return", "tpl_tile"}
FetchedJob == jobLog # <<>> /\ attemptLog # <<>>
LastAttempt == attemptLog[Len(attemptLog)]

\* C1: a fetch over a directory that already holds every file of the grid
\* issues no GET and returns successful = width x height.
C1_RerunReturnsGridSize ==
    (FetchedJob /\ ~InFetch /\ attemptLog[1].pre = attemptLog[1].tiles)
        => /\ Len(attemptLog) = 1
           /\ attemptLog[1].tally = attemptLog[1].tiles
           /\ attemptLog[1].gets = 0

\* C2: a StreetView zoom attempt over a grid of at least 50 tiles, none of them
\* on disk, in which every request fails issues exactly 50 GET requests and
\* returns after those 50 coordinates.
C2_AllFailStopsAt50 ==
    (pc = "sv_return" /\ width * height >= 50 /\ LastAttempt.pre = 0 /\ successful = 0)
        => gets = 50 /\ failed = 50 /\ visited = 50

C2_Witness ==
    /\ pc = "sv_return" /\ zoom = 3 /\ width * height = 128
    /\ LastAttempt.pre = 0 /\ successful = 0 /\ gets = 50

\* C3: with auto zoom the first attempt is at zoom 5; once it has returned, a
\* tally below 10 is followed by exactly one more attempt, over the 32 x 16
\* grid of zoom 4, and a tally of 10 or more by none; there is never a third.
C3_AutoFallbackOnce ==
    (zoom_mode = "auto" /\ FetchedJob /\ urls_to_process[jobLog[Len(jobLog)].job].url_type = "streetview")
        => /\ Len(attemptLog) <= 2
           /\ attemptLog[1].zoom = 5
           /\ (attemptLog[1].tally # Unbound /\ attemptLog[1].tally < 10)
                => /\ Len(attemptLog) = 2
                   /\ attemptLog[2].zoom = 4
                   /\ attemptLog[2].tiles = 32 * 16
           /\ (attemptLog[1].tally >= 10 \/ attemptLog[1].tally = Unbound)
                => Len(attemptLog) = 1

C3_Witness ==
    /\ zoom_mode = "auto" /\ pc = "finished" /\ Len(attemptLog) = 2
    /\ attemptLog[1].tally \in 5..9
    /\ attemptLog[2].tally \in 0..9

\* C4: when a zoom level is forced, exactly one attempt is made, at that zoom.
C4_ForcedZoomOneAttempt ==
    (zoom_mode = "manual" /\ FetchedJob)
        => Len(attemptLog) = 1 /\ attemptLog[1].zoom = zoom_level

CurrentType == urls_to_process[jobLog[Len(jobLog)].job].url_type
CurrentTile == TileFile(pano_id, x, y, zoom, Suffix(urls_to_process[idx]))
InTileLoop == pc \in {"sv_tile", "tpl_tile"}

C6_FileIffSuccessful ==
    [][(InTileLoop /\ CurrentTile \notin tileFiles)
        => /\ gets' = gets + 1
           /\ (CurrentTile \in tileFiles') <=> (successful' = successful + 1)
           /\ (successful' = successful + 1) <=> (Response(zoom, x, y) = "image")
           /\ (Response(zoom, x, y) = "image") => failed' = failed
           /\ (Response(zoom, x, y) # "image")
                => /\ failed' = failed + 1
                   /\ successful' = successful
                   /\ CurrentTile \notin tileFiles']_vars

C6_Witness ==
    /\ pc = "sv_return" /\ LastAttempt.pre = 0
    /\ successful > 0 /\ failed >= 4
    /\ Cardinality(GridFilesPresent(pano_id, zoom, SvSuffix, width, height)) = successful
    /\ GridFilesPresent(pano_id, zoom, SvSuffix, width, height) \subseteq written

\* C7: a GET is issued only for a coordinate whose file is absent; a coordinate
\* whose file is present counts as successful with no request, and no file changes.
C7_PresentTilesSkipped ==
    [][InTileLoop
        => /\ (gets' # gets) => CurrentTile \notin tileFiles
           /\ (CurrentTile \in tileFiles)
                => /\ gets' = gets
                   /\ successful' = successful + 1
                   /\ failed' = failed
                   /\ tileFiles' = tileFiles
                   /\ unreadable' = unreadable
                   /\ written' = written]_vars

C7_Witness ==
    /\ InFetch /\ LastAttempt.pre > 0
    /\ gets > 0 /\ gets < visited /\ written # {}

JobEnded == FetchedJob /\ pc \in {"batch", "finished"}
LastJob == jobLog[Len(jobLog)]

Ended(i) == jobLog[i].outcome # "running"

\* C9: the batch runs the jobs once each in input order; a failed job is counted
\* and the next one still runs; at the end successful + failed is the number of jobs.
C9_BatchRunsEveryJobOnce ==
    /\ Len(jobLog) = idx
    /\ \A i \in 1..Len(jobLog) : jobLog[i].job = i
    /\ batch_successful = Cardinality({i \in 1..Len(jobLog) : jobLog[i].outcome = "ok"})
    /\ batch_failed = Cardinality({i \in 1..Len(jobLog) : jobLog[i].outcome \notin {"ok", "running"}})
    /\ pc = "finished"
        => /\ Len(jobLog) = Len(urls_to_process)
           /\ \A i \in 1..Len(jobLog) : Ended(i)
           /\ batch_successful + batch_failed = Len(urls_to_process)

C9_Witness ==
    /\ pc = "finished" /\ Len(urls_to_process) >= 2
    /\ jobLog[1].outcome \notin {"ok", "running"}
    /\ jobLog[2].outcome = "ok"
    /\ batch_successful = 1 /\ batch_failed = Len(urls_to_process) - 1

\* C10: a job's tile directory is removed only when cleanup was asked for and
\* the job's stitch succeeded; every other finished job whose directory existed
\* or was created still has it.
C10_CleanupOnlyAfterStitch ==
    \A i \in 1..Len(jobLog) :
        /\ jobLog[i].cleaned => delete_tiles /\ jobLog[i].stitched /\ i \in panoramas
        /\ (Ended(i) /\ ~(delete_tiles /\ jobLog[i].stitched))
            => (i \in tileDirs <=> jobLog[i].outcome # "NoDirectory")
        /\ (mode \in {"download", "normalize"} /\ Ended(i) /\ jobLog[i].outcome # "NoDirectory")
            => i \in tileDirs

C10_Witness ==
    /\ pc = "finished" /\ delete_tiles
    /\ \E i \in 1..Len(jobLog) : jobLog[i].cleaned /\ i \notin tileDirs
    /\ \E i \in 1..Len(jobLog) :
            jobLog[i].outcome \notin {"ok", "NoDirectory"} /\ i \in tileDirs

\* C11: a job whose stitch succeeded is reported as successfully processed,
\* whatever the deletion of its tile directory did.
C11_CleanupFailureNotEscalated ==
    \A i \in 1..Len(jobLog) :
        (Ended(i) /\ jobLog[i].stitched) => jobLog[i].outcome = "ok"

Produced == handled \o progress_queue
IsPrefix(a, b) == Len(a) <= Len(b) /\ SubSeq(b, 1, Len(a)) = a
FinishedAt(msgs) == {i \in 1..Len(msgs) : msgs[i][1] = "finished"}

C12_OneFinishedLast ==
    /\ Cardinality(FinishedAt(Produced)) <= 1
    /\ (FinishedAt(Produced) # {}) <=> (pc = "finished")
    /\ (FinishedAt(Produced) # {}) => FinishedAt(Produced) = {Len(Produced)}
    /\ (FinishedAt(handled) # {}) => progress_queue = <<>>

C12_InOrder ==
    /\ IsPrefix(Produced, Produced')
    /\ IsPrefix(handled, handled')
    /\ (FinishedAt(Produced) # {}) => Produced' = Produced

\* C12: the worker puts exactly one "finished" message per run, as its last
\* message: nothing is put after it; the window handles the messages in the order
\* in which the worker put them, and nothing is left once it has handled "finished".
C12_EventStream == [](C12_OneFinishedLast) /\ [][C12_InOrder]_vars

C12_Witness ==
    /\ pc = "finished" /\ ~is_running /\ progress_queue = <<>>
    /\ Len(urls_to_process) = 2
    /\ handled[Len(handled)] = finished_message
    /\ \E i, j \in 1..Len(handled) :
            i < j /\ handled[i] = FailedToProcess /\ handled[j][2] = "Successfully processed"

GridCall == pc = "return" /\ input.fn \in {"find_grid_boundaries", "auto_detect_grid"}

\* C13: for every zoom and every pattern of probe answers the resolver returns
\* width >= 1 and height >= 1, and when it falls back to the theoretical bounds
\* it returns exactly 2^(zoom+1) x 2^zoom (64 x 32 at zoom 5, 32 x 16 at zoom 4).
C13_GridAtLeastOneAndCeiling ==
    GridCall =>
        /\ output.width >= 1 /\ output.height >= 1
        /\ output.fallback =>
              /\ output.width = Pow2(input.zoom + 1) /\ output.height = Pow2(input.zoom)
              /\ (input.zoom = 5 => output.width = 64 /\ output.height = 32)
              /\ (input.zoom = 4 => output.width = 32 /\ output.height = 16)

C13_Witness ==
    /\ GridCall /\ output.fallback /\ input.zoom = 5
    /\ 45 \in input.presentX /\ 31 \in input.presentY
    /\ output.width = 64 /\ output.height = 32

\* The positions probed on one axis, and the greatest of them that answers
\* present (0 when none does).
CoarseHit(ceil, step, present) == GreatestOr({n \in present : n < ceil /\ n % step = 0}, 0)
ProbedOnAxis(ceil, step, back, ahead, present) ==
    LET hit == CoarseHit(ceil, step, present)
    IN  {n \in 0..(ceil - 1) : n % step = 0 \/ (n >= hit - back /\ n < hit + ahead)}
GreatestFound(ceil, step, back, ahead, present) ==
    GreatestOr(present \cap ProbedOnAxis(ceil, step, back, ahead, present), 0)
MaxXFound == GreatestFound(Pow2(input.zoom + 1), 4, 8, 16, input.presentX)
MaxYFound == GreatestFound(Pow2(input.zoom), 2, 4, 8, input.presentY)

\* C14: the resolver returns the full theoretical bounds exactly when
\* (maxX+1)*(maxY+1) is strictly less than 10% of the theoretical tile count,
\* and otherwise width = maxX+1 and height = maxY+1 for the greatest present x
\* and y among the probed positions (0 where no probe answered present).
C14_FallbackIffBelowTenth ==
    GridCall =>
        LET detected == (MaxXFound + 1) * (MaxYFound + 1)
            theoretical == Pow2(input.zoom + 1) * Pow2(input.zoom)
        IN  /\ output.fallback <=> (10 * detected < theoretical)
            /\ output.fallback =>
                  /\ output.width = Pow2(input.zoom + 1) /\ output.height = Pow2(input.zoom)
            /\ ~output.fallback =>
                  /\ output.width = MaxXFound + 1 /\ output.height = MaxYFound + 1

\* Both sides of the threshold at zoom 5 (2048 tiles): 25 x 8 = 200 falls back,
\* 46 x 8 = 368, found off the coarse steps, does not.
C14_Witness ==
    /\ GridCall /\ input.zoom = 5 /\ ~output.fallback
    /\ output.width = 46 /\ output.height = 8

NormalizeCall == pc = "return" /\ input.fn = "normalize_tiles"
StitchCall == pc = "return" /\ input.fn = "stitch_tiles"
ReadableIn(files) == {i \in 1..Len(files) : files[i].readable}
LoadedIn(files) == {i \in 1..Len(files) : files[i].matches /\ files[i].readable}

\* C15: the saved panorama has the canvas width and a height of exactly
\* canvasWidth \div 2: a taller canvas keeps its rows [0, target), a shorter one
\* gets black rows below, a canvas at the target height is unchanged
\* (2048x1536, 2048x900 and 2048x1024 all give 2048x1024).
C15_AspectHalfWidth ==
    (StitchCall /\ output.saved) =>
        LET cw == output.canvas_width
            ch == output.canvas_height
            target == cw \div 2
            pano == output.panorama
        IN  /\ pano.width = cw /\ pano.height = target
            /\ pano.kept + pano.padded = pano.height
            /\ (ch > target) => (pano.kept = target /\ pano.padded = 0)
            /\ (ch < target) => (pano.kept = ch /\ pano.padded = target - ch)
            /\ (ch = target) => (pano.kept = ch /\ pano.padded = 0)
            /\ (cw = 2048 /\ ch \in {1536, 900, 1024}) => (pano.width = 2048 /\ pano.height = 1024)

C15_Witness ==
    /\ StitchCall /\ output.saved
    /\ output.canvas_width = 2048 /\ output.canvas_height = 900
    /\ output.panorama.height = 1024 /\ output.panorama.padded = 124

Cells == (0..output.max_x) \X (0..output.max_y)
HasTile(c) == \E i \in 1..Len(output.tiles) : output.tiles[i].x = c[1] /\ output.tiles[i].y = c[2]
\* Paste p puts pixels into cell c of the canvas.
Paints(p, c) ==
    /\ p.x_pos < (c[1] + 1) * output.tile_width
    /\ p.x_pos + p.tile.size[1] > c[1] * output.tile_width
    /\ p.y_pos < (c[2] + 1) * output.tile_height
    /\ p.y_pos + p.tile.size[2] > c[2] * output.tile_height
StaysBlack(c) == \A i \in 1..Len(output.pasted) : ~Paints(output.pasted[i], c)
UniformTiles ==
    \A i \in 1..Len(output.tiles) :
        output.tiles[i].size = <<output.tile_width, output.tile_height>>

C17_CanvasAndPlacement ==
    LET first == CHOOSE i \in LoadedIn(input.files) : \A j \in LoadedIn(input.files) : i <= j
        tw == input.files[first].size[1]
        th == input.files[first].size[2]
        maxX == GreatestOr({input.files[i].x : i \in LoadedIn(input.files)}, 0)
        maxY == GreatestOr({input.files[i].y : i \in LoadedIn(input.files)}, 0)
    IN  /\ output.tile_width = tw /\ output.tile_height = th
        /\ output.canvas_width = (maxX + 1) * tw
        /\ output.canvas_height = (maxY + 1) * th
        /\ Len(output.tiles) = Cardinality(LoadedIn(input.files))
        /\ Len(output.pasted) = Len(output.tiles)
        /\ \A i \in 1..Len(output.tiles) :
                /\ output.pasted[i].tile = output.tiles[i]
                /\ output.pasted[i].x_pos = output.tiles[i].x * tw
                /\ output.pasted[i].y_pos = output.tiles[i].y * th

\* C17 (as claimed): the canvas is ((maxX+1)*tileWidth) x ((maxY+1)*tileHeight)
\* for the greatest coordinates of the loaded tiles and the size of the first
\* loaded tile, each loaded tile is pasted at (x*tileWidth, y*tileHeight), and
\* every cell of the canvas with no tile stays black.
C17_StitchCanvas ==
    (StitchCall /\ output.saved) =>
        /\ C17_CanvasAndPlacement
        /\ \A c \in Cells : ~HasTile(c) => StaysBlack(c)

\* C17 (amended): canvas and placement as claimed; the cells with no tile stay
\* black when every loaded tile has the size of the first one, as after
\* normalization.
C17_StitchCanvasUniform ==
    (StitchCall /\ output.saved) =>
        /\ C17_CanvasAndPlacement
        /\ UniformTiles => \A c \in Cells : ~HasTile(c) => StaysBlack(c)

C17_Witness ==
    /\ StitchCall /\ output.saved /\ UniformTiles
    /\ \E i \in 1..Len(input.files) : input.files[i] = CorruptTile
    /\ Len(output.tiles) = 3
    /\ output.canvas_width = 2048 /\ output.canvas_height = 1024
    /\ \E c \in Cells : ~HasTile(c) /\ StaysBlack(c)

ExtractCall == pc = "return" /\ input.fn = "extract_id_from_url"
ValidateCall == pc = "return" /\ input.fn = "validate_url"

\* The token [A-Za-z0-9_-]+ after the first occurrence of marker that has one.
TokenAfter(url, marker, caseless) ==
    LET hay == IF caseless THEN LowerAll(url) ELSE url
        at == {i \in Occurrences(hay, marker) :
                  i + Len(marker) <= Len(url) /\ url[i + Len(marker)] \in TokenChars}
    IN  IF at = {} THEN None
        ELSE LET first == CHOOSE i \in at : \A j \in at : i <= j
             IN  SubSeq(url, first + Len(marker),
                        RunEnd(url, first + Len(marker), TokenChars))

\* C19: identifier extraction returns the token after the first
\* case-insensitive id= match; for a StreetView URL with no such match it
\* returns the token after panoid=, and failing that the token after the
\* literal 1s; otherwise it finds no identifier.
C19_IdWithStreetViewFallbacks ==
    (ExtractCall /\ validate_url(input.url).error = "none") =>
        LET byId == TokenAfter(input.url, <<"i", "d", "=">>, TRUE)
            byPanoid == TokenAfter(input.url, <<"p", "a", "n", "o", "i", "d", "=">>, TRUE)
            by1s == TokenAfter(input.url, <<"1", "s">>, FALSE)
            streetview == validate_url(input.url).url_type = "streetview"
        IN  output.id = IF byId # None THEN byId
                        ELSE IF streetview /\ byPanoid # None THEN byPanoid
                        ELSE IF streetview /\ by1s # None THEN by1s
                        ELSE None

\* [&?]<name>=<digits> in either case of the name.
HasCoordinateAnyCase(url, name) ==
    \E i \in 1..(Len(url) - 3) :
        /\ url[i] \in {"&", "?"} /\ Lower(url[i + 1]) = name /\ url[i + 2] = "="
        /\ url[i + 3] \in Digits

\* The kind of source a classified URL is downloaded as (lines 618, 789).
SourceKind(url, url_type) ==
    IF url_type = "streetview" THEN "StreetView"
    ELSE IF HasPlaceholders(url) THEN "Template" ELSE "ParameterizedCoords"

\* C20: a URL holding both [%X] and [%Y] is Template; otherwise one holding
\* both x=<digits> and y=<digits>, in either case and after & or ?, is
\* ParameterizedCoords; otherwise it is StreetView.
C20_ClassificationOrder ==
    (ValidateCall /\ output.error = "none") =>
        SourceKind(Strip(input.url), output.url_type) =
            IF HasPlaceholders(Strip(input.url)) THEN "Template"
            ELSE IF HasCoordinateAnyCase(Strip(input.url), "x")
                    /\ HasCoordinateAnyCase(Strip(input.url), "y")
            THEN "ParameterizedCoords"
            ELSE "StreetView"

\* C25: a StreetView zoom attempt always ends by returning its success count,
\* whatever files are on disk and whatever the requests meet, whole columns
\* already on disk included; it never ends with an unhandled error.
C25_AttemptAlwaysReturns ==
    /\ \A i \in 1..Len(jobLog) : jobLog[i].outcome # "UnboundLocalError"
    /\ (FetchedJob /\ ~InFetch) => \A a \in 1..Len(attemptLog) : attemptLog[a].tally # Unbound

\* C26: the tiles the stitcher loads for one job all carry one zoom level, also
\* after the zoom-5 attempt of an auto-zoom download saved 1 to 9 tiles and the
\* zoom-4 attempt ran.
C26_StitchedTilesOneZoom ==
    (pc = "cleanup" /\ LastJob.stitched)
        => \A f, g \in Readable(pano_id) : f[4] = g[4]

\* C29: when the tiles on the server form a full rectangle [0, W) x [0, H) with
\* W and H within the theoretical ceiling and W*H at least 10% of the
\* theoretical tile count, both variants of the resolver return exactly
\* width = W and height = H.
C29_FullRectangleExact ==
    GridCall =>
        LET W == Cardinality(input.presentX)
            H == Cardinality(input.presentY)
        IN  (/\ W \in 1..Pow2(input.zoom + 1) /\ H \in 1..Pow2(input.zoom)
             /\ input.presentX = 0..(W - 1) /\ input.presentY = 0..(H - 1)
             /\ 10 * W * H >= Pow2(input.zoom + 1) * Pow2(input.zoom))
                => output.width = W /\ output.height = H

\* 14 x 15 = 210 of 2048 tiles at zoom 5, neither side on a coarse step.
C29_Witness ==
    /\ GridCall /\ input.zoom = 5 /\ ~output.fallback
    /\ input.presentX = 0..13 /\ input.presentY = 0..14
    /\ output.width = 14 /\ output.height = 15

\* The claim of C30 for one axis: a is what the search did, present the
\* positions whose probe answers present.
AxisAsClaimed(a, ceil, s, back, ahead, present) ==
    LET coarseProbes == {n \in 0..(ceil - 1) : n % s = 0}
        coarseMax == GreatestOr(coarseProbes \cap present, 0)
        fineProbes == {n \in 0..(ceil - 1) : coarseMax - back <= n /\ n < coarseMax + ahead}
    IN  /\ a.probed = coarseProbes \cup fineProbes
        /\ a.coarse = coarseMax
        /\ a.found = GreatestOr(a.probed \cap present, 0)
        /\ a.found >= a.coarse

\* C30: on each axis the resolver's max coordinate is the greatest coordinate
\* that answered present among the positions probed, or 0 if none did: the
\* coarse pass probes 0, s, 2s, ... below the ceiling (s = 4 for X, 2 for Y),
\* the fine pass every integer of [coarseMax - 8, coarseMax + 16) for X and
\* [coarseMax - 4, coarseMax + 8) for Y, clipped to [0, ceiling), and the fine
\* pass never lowers the coarse result.
C30_AxisMaximum ==
    GridCall =>
        /\ AxisAsClaimed(output.axisX, Pow2(input.zoom + 1), 4, 8, 16, input.presentX)
        /\ AxisAsClaimed(output.axisY, Pow2(input.zoom), 2, 4, 8, input.presentY)

\* The fine pass raises the coarse result 4 to 13 and 0 to 7; the tile at x = 45
\* answers present but is never probed.
C30_Witness ==
    /\ GridCall /\ input.zoom = 5
    /\ input.presentX = {0, 4, 13, 45} /\ input.presentY = {0, 7}
    /\ output.axisX.coarse = 4 /\ output.axisX.found = 13 /\ 45 \notin output.axisX.probed
    /\ output.axisY.coarse = 0 /\ output.axisY.found = 7

PromptCall == pc = "return" /\ input.fn = "prompt_for_id"

\* C23: the identifier made of a name the caller typed has the length of the
\* name and only characters of [A-Za-z0-9_-]: those characters are kept, every
\* other character is replaced by _.
C23_SanitizedToTokenChars ==
    (PromptCall /\ output.id # None) =>
        /\ Len(output.id) = Len(input.dialog.text)
        /\ \A i \in 1..Len(output.id) :
                /\ output.id[i] \in TokenChars
                /\ output.id[i] = IF input.dialog.text[i] \in TokenChars
                                  THEN input.dialog.text[i] ELSE "_"

StartCall == pc = "return" /\ input.fn = "start_download" /\ Strip(input.form.output_dir) # <<>>
HasScheme(url) ==
    \/ StartsWith(url, <<"h", "t", "t", "p", ":", "/", "/">>)
    \/ StartsWith(url, <<"h", "t", "t", "p", "s", ":", "/", "/">>)
Rejectable(raw) == Strip(raw) = <<>> \/ ~HasScheme(Strip(raw))
ValidationErrors ==
    {"Please enter a URL", "Please enter a valid URL",
     "Template URL must contain [%X] and [%Y] placeholders", "No valid URLs found"}
SchemedLines ==
    {k \in 1..Len(input.form.lines) : ~Rejectable(input.form.lines[k])}

\* C21: a URL that is empty or does not begin with http:// or https:// is
\* refused with a validation error and starts no job: in single mode, with
\* either URL type, the handler ends on a validation error; in batch mode every
\* job comes from a line that has the scheme, and a batch with no such line
\* ends on the validation error.
C21_InvalidUrlRejected ==
    StartCall =>
        /\ (input.form.processing_mode = "single" /\ Rejectable(input.form.url))
               => output.verdict \in ValidationErrors
        /\ input.form.processing_mode = "batch"
               => /\ SchemedLines = {} => output.verdict \in ValidationErrors
                  /\ Len(output.urls_to_process) <= Cardinality(SchemedLines)
                  /\ \A i \in 1..Len(output.urls_to_process) :
                        \E k \in SchemedLines :
                            extract_id_from_url(Strip(input.form.lines[k]))
                                = output.urls_to_process[i].pano_id

\* C22: no job is started without a panorama identifier. Every started job
\* carries a non-empty identifier; in single mode, when the URL gives none and
\* the dialog is cancelled, the handler ends with no worker started, and a typed
\* name becomes the identifier; in batch mode every job carries the identifier
\* of one of the lines, and there are no more jobs than lines that give one.
C22_NoJobWithoutId ==
    StartCall =>
        /\ \A i \in 1..Len(output.urls_to_process) :
              output.urls_to_process[i].pano_id \notin {None, <<>>}
        /\ output.verdict = "started" <=> output.urls_to_process # <<>>
        /\ (/\ input.form.processing_mode = "single"
            /\ extract_id_from_url(Strip(input.form.url)) = None)
               => IF input.form.dialog.cancelled
                  THEN output.verdict # "started"
                  ELSE output.verdict = "started"
                          => output.urls_to_process[1].pano_id
                                = prompt_for_id(input.form.dialog)
        /\ input.form.processing_mode = "batch"
               => LET withId == {k \in 1..Len(input.form.lines) :
                                    extract_id_from_url(Strip(input.form.lines[k])) # None}
                  IN  /\ Len(output.urls_to_process) <= Cardinality(withId)
                      /\ \A i \in 1..Len(output.urls_to_process) :
                            \E k \in withId :
                                extract_id_from_url(Strip(input.form.lines[k]))
                                    = output.urls_to_process[i].pano_id

\* A single URL without identifier whose dialog was cancelled, and a started
\* batch that left out a line without identifier.
C22_Witness ==
    /\ StartCall
    /\ \/ /\ input.form.processing_mode = "single"
          /\ extract_id_from_url(Strip(input.form.url)) = None
          /\ input.form.dialog.cancelled
          /\ output.verdict = "User cancelled"
       \/ /\ input.form.processing_mode = "batch"
          /\ output.verdict = "started"
          /\ Len(output.urls_to_process) < Len(input.form.lines)
          /\ \E k \in 1..Len(input.form.lines) :
                /\ validate_url(input.form.lines[k]).error = "none"
                /\ extract_id_from_url(Strip(input.form.lines[k])) = None

\* C24: within one batch run no panorama identifier is processed twice, also
\* when several lines of the batch give the same identifier.
C24_BatchDuplicatesSkipped ==
    \A i, j \in 1..Len(jobLog) :
        i # j => urls_to_process[jobLog[i].job].pano_id # urls_to_process[jobLog[j].job].pano_id

WorkerEnded == pc \in {"idle", "finished"}
FinishedHandled == handled # <<>> /\ handled[Len(handled)][1] = "finished"

\* C27: at most one worker runs at a time. While is_running is true no step
\* starts a worker: the arguments of the run stay as they are and the worker's
\* log is not reset, and a call of start_download changes nothing but the note
\* of how it ended. is_running becomes false only in the step of the consumer
\* that takes the "finished" message, the last one of the queue, with the
\* worker at its end. While is_running is false the worker is at its end and
\* takes no step until a call of start_download starts the next run.
C27_AtMostOneWorker ==
    [][/\ is_running
          => /\ UNCHANGED argVars
             /\ Len(jobLog') >= Len(jobLog)
             /\ IsPrefix(handled, handled')
             /\ clicked' # clicked
                   => /\ clicked' = "busy"
                      /\ UNCHANGED <<argVars, diskVars, pc, batchVars, loopVars,
                                     successful_tiles, probes, written, attemptLog, jobLog,
                                     progress_queue, is_running, handled>>
       /\ (is_running /\ ~is_running')
          => /\ WorkerEnded /\ pc' = pc
             /\ progress_queue # <<>> /\ progress_queue' = <<>>
             /\ ~FinishedHandled /\ FinishedHandled'
       /\ ~is_running
          => /\ WorkerEnded
             /\ progress_queue = <<>>
             /\ pc' # pc => (is_running' /\ pc' = "batch" /\ clicked' = "started")
      ]_vars

\* A call of start_download came while the worker was running and was turned
\* away; the run then ended and its "finished" message was handled.
C27_Witness ==
    /\ clicked = "busy" /\ ~is_running /\ pc = "finished"
    /\ FinishedHandled /\ jobLog # <<>>

\* C28: every run that was started ends: the worker puts "finished" and the
\* consumer takes it and sets is_running to false, after which start_download
\* acts again, also when jobs of the run failed.
C28_RunEndsAndResets ==
    is_running ~> (~is_running /\ FinishedHandled /\ pc = "finished" /\ ~Busy)

\* A run ended and was reset with one job failed and another done.
C28_Witness ==
    /\ ~is_running /\ FinishedHandled /\ pc = "finished"
    /\ batch_failed > 0 /\ batch_successful > 0

\* C31 as claimed: on each axis the resolver issues at most ceiling/4 + 24
\* probes, for every zoom and every pattern of probe answers.
C31_ProbesWithinQuarter ==
    GridCall =>
        /\ 4 * output.axisX.probes <= TheoreticalX(input.zoom) + 96
        /\ 4 * output.axisY.probes <= TheoreticalY(input.zoom) + 96

\* C31, amended: the resolver issues at most ceiling/4 + 24 probes on the X
\* axis and at most ceiling/2 + 12 on the Y axis, whose coarse stride is 2 and
\* whose fine window holds 12 positions; up to zoom 5 both are within
\* ceiling/4 + 24.
C31_ProbesPerAxis ==
    GridCall =>
        /\ 4 * output.axisX.probes <= TheoreticalX(input.zoom) + 96
        /\ 2 * output.axisY.probes <= TheoreticalY(input.zoom) + 24
        /\ input.zoom <= 5 => 4 * output.axisY.probes <= TheoreticalY(input.zoom) + 96

\* Zoom 6 with a tile found at row 12: 32 coarse and 12 fine probes on Y, the
\* bound of the Y axis, and 32 coarse and 24 fine probes on X, the bound of X.
C31_Witness ==
    /\ GridCall /\ input.zoom = 6
    /\ output.axisY.probes = 44 /\ output.axisX.probes = 56

TallyStep == InTileLoop /\ <<successful, failed, visited>>' # <<successful, failed, visited>>

\* C32: throughout a zoom attempt every visited coordinate adds one to exactly
\* one of successful and failed, once: a step of the loop body visits one
\* coordinate and raises one of the two counters by one, so that in the loop and
\* at its end successful + failed is the number of coordinates visited, which
\* is at most width x height and at most the coordinates that precede (x, y)
\* in the scan, all of them in a template download.
C32_TallyCountsVisited ==
    [][/\ TallyStep
          => /\ visited' = visited + 1
             /\ \/ successful' = successful + 1 /\ failed' = failed
                \/ successful' = successful /\ failed' = failed + 1
       /\ (pc' \in {"sv_tile", "tpl_tile", "sv_return", "downloaded"} \/ TallyStep)
          => /\ successful' + failed' = visited'
             /\ visited' <= width' * height'
       /\ pc' = "sv_tile" => visited' <= x' * height' + y'
       /\ pc' = "tpl_tile" => visited' = x' * height' + y'
      ]_vars

\* In the middle of an attempt, with tiles found on disk, fetched and failed.
C32_Witness ==
    /\ InTileLoop /\ successful >= 2 /\ failed >= 1 /\ gets < visited /\ gets > failed
    /\ visited < width * height

\* C33: every tile the stitcher loads is placed on the canvas: the test before
\* the paste holds for each loaded tile, whatever the sizes of the tiles, so
\* the placed count is the number of loaded tiles, which is the number of files
\* whose name matches and that open.
C33_EveryLoadedTilePlaced ==
    (StitchCall /\ output.saved) =>
        /\ Len(output.tiles) = Cardinality(LoadedIn(input.files))
        /\ \A i \in 1..Len(output.tiles) :
              /\ output.tiles[i].x * output.tile_width + output.tile_width
                    <= output.canvas_width
              /\ output.tiles[i].y * output.tile_height + output.tile_height
                    <= output.canvas_height
              /\ \E k \in 1..Len(output.pasted) : output.pasted[k].tile = output.tiles[i]
        /\ Cardinality({k \in 1..Len(output.pasted) : output.pasted[k].fits})
              = Len(output.tiles)

\* Three tiles are loaded and placed beside a file that does not open; one of
\* them is larger than the first tile and reaches over the edge of the canvas.
C33_Witness ==
    /\ StitchCall /\ output.saved
    /\ Len(input.files) = 4 /\ Len(output.tiles) = 3 /\ Len(output.pasted) = 3
    /\ \E k \in 1..3 :
          output.pasted[k].y_pos + output.pasted[k].tile.size[2] > output.canvas_height

\* C34: normalization is idempotent: run again on the directory it has just
\* normalized, normalize_tiles selects the same target size, resizes no tile
\* and leaves every file as it is.
C34_NormalizeIdempotent ==
    (NormalizeCall /\ output.error = "none") =>
        /\ normalize_tiles(output.files).error = "none"
        /\ normalize_tiles(output.files).largest_size = output.largest_size
        /\ normalize_tiles(output.files).resized = {}
        /\ \A i \in 1..Len(output.files) :
              normalize_tiles(output.files).files[i] = output.files[i]

\* The first run resized two tiles of different sizes and passed over a file
\* that does not open.
C34_Witness ==
    /\ NormalizeCall /\ output.error = "none"
    /\ Cardinality(output.resized) = 2
    /\ \E i, j \in output.resized : input.files[i].size # input.files[j].size
    /\ \E i \in 1..Len(input.files) : ~input.files[i].readable

StartedIds == {urls_to_process[i].pano_id : i \in 1..Len(urls_to_process)}
FilesFor(id) ==
    <<id \in tileDirs, DirTiles(id), {f \in unreadable : f[1] = id},
      id \in panoramas, id \in urlFiles>>

\* C35: a URL whose panorama is in the output directory when the run is
\* started is skipped before any worker starts. The step that starts a worker
\* hands it no job whose identifier has its panorama on disk, issues no request
\* and leaves the disk as it is; a call that starts no worker issues no request
\* and leaves the disk as it is; and while the run goes on, no file of an
\* identifier that is not among the started jobs is created, changed or deleted.
C35_ExistingPanoramaSkipped ==
    [][/\ (~is_running /\ is_running')
          => /\ StartedIds' \cap panoramas = {}
             /\ gets' = 0 /\ probes' = 0
             /\ UNCHANGED diskVars
       /\ (~is_running /\ ~is_running')
          => UNCHANGED <<diskVars, gets, probes, urls_to_process>>
       /\ is_running
          => \A id \in {<<"a">>, <<"b">>} \ StartedIds : FilesFor(id)' = FilesFor(id)
      ]_vars

\* A single URL was turned away because its panorama, stitched by an earlier
\* run, is in the output directory.
C35_Witness ==
    /\ clicked = "already exists - skipping" /\ ~is_running
    /\ panoramas # {} /\ jobLog # <<>>

====
